---- MODULE Spec2Model ----
(***************************************************************************)
(* Bar-by-bar replay engines of the ETH trading bot and the signal scoring *)
(* of TradingStrategy.                                                     *)
(*                                                                         *)
(* Units.  Prices and price-like indicators (ATR, moving averages, pivot   *)
(* levels) are integers in cents, so round(x, 2) is rounding to an         *)
(* integer.  Money (capital, pnl, equity) is in cents as well; a product   *)
(* that the code leaves to floating point is rounded to the nearest cent.  *)
(* Scores are carried in hundredths of a point where the code multiplies   *)
(* them by weights such as 0.35.  position_size is in percent (100 = 1.0). *)
(* pnl_pct is an exact fraction <<numerator, denominator>>.                *)
(***************************************************************************)
EXTENDS Integers, Sequences, FiniteSets, TLC

----------------------------------------------------------------------------
(* Arithmetic helpers *)

Abs(x) == IF x < 0 THEN -x ELSE x

Min(a, b) == IF a <= b THEN a ELSE b

Max(a, b) == IF a >= b THEN a ELSE b

RECURSIVE GCD(_, _)
GCD(a, b) == IF b = 0 THEN a ELSE GCD(b, a % b)

\* a / b rounded to the nearest integer (b > 0)
RoundDiv(a, b) ==
    IF a >= 0 THEN (2 * a + b) \div (2 * b)
    ELSE -((2 * (-a) + b) \div (2 * b))

\* the fraction num/den (den > 0) in lowest terms
Frac(num, den) ==
    LET g == GCD(Abs(num), den)
    IN  IF g = 0 THEN <<0, 1>> ELSE <<num \div g, den \div g>>

\* amount * num / den, to the nearest cent
Scale(amount, num, den) ==
    LET f == Frac(num, den)
    IN  RoundDiv(amount * f[1], f[2])

\* dict.get(key, default)
Get(ind, key, default) == IF key \in DOMAIN ind THEN ind[key] ELSE default

\* the sum of two fractions, in lowest terms
FracAdd(a, b) == Frac(a[1] * b[2] + b[1] * a[2], a[2] * b[2])

\* a/b <= c/d for a, c >= 0 and b, d > 0, by the integer parts and then the
\* reciprocals of the remainders, so that no product is formed
RECURSIVE QuotLE(_, _, _, _)
QuotLE(a, b, c, d) ==
    IF a \div b # c \div d THEN a \div b < c \div d
    ELSE IF a % b = 0 THEN TRUE
    ELSE IF c % d = 0 THEN FALSE
    ELSE QuotLE(d, c % d, b, a % b)

\* x <= y for fractions <<num, den>> with den > 0
FracLE(x, y) ==
    IF x[1] < 0
    THEN y[1] >= 0 \/ QuotLE(-y[1], y[2], -x[1], x[2])
    ELSE y[1] >= 0 /\ QuotLE(x[1], x[2], y[1], y[2])

----------------------------------------------------------------------------
(* TradingStrategy (src/strategy.py) *)

SignalTypes == {"STRONG_BUY", "BUY", "NEUTRAL", "SELL", "STRONG_SELL"}

BuySide == {"BUY", "STRONG_BUY"}

NoSignal ==
    [signal_type |-> "None", strength |-> 0, price |-> 0,
     stop_loss |-> 0, take_profit |-> 0]

\* no snapshot handed over yet, no sub-score computed yet
NoSnapshot == [none |-> 0]

NoScores == [none |-> 0]

\* config.get('signal_threshold', 28)
signal_threshold == 28

_get_market_state(ind) ==
    LET adx      == Get(ind, "adx", 25)
        bb_width == Get(ind, "bb_width", 30)      \* thousandths: 0.03
    IN  IF adx > 30 /\ bb_width > 40 THEN "trending"
        ELSE IF adx < 20 \/ bb_width < 20 THEN "ranging"
        ELSE "mixed"

_mean_reversion_signal(ind) ==
    LET rsi      == Get(ind, "rsi", 50)
        bb_pband == Get(ind, "bb_pband", 50)      \* hundredths: 0.5
        k        == Get(ind, "stoch_k", 50)
        d        == Get(ind, "stoch_d", 50)
        s1 == IF rsi < 20 THEN 50
              ELSE IF rsi < 30 THEN 35
              ELSE IF rsi < 40 THEN 15
              ELSE IF rsi > 80 THEN -50
              ELSE IF rsi > 70 THEN -35
              ELSE IF rsi > 60 THEN -15
              ELSE 0
        s2 == IF bb_pband < -5 THEN 40
              ELSE IF bb_pband < 10 THEN 25
              ELSE IF bb_pband > 105 THEN -40
              ELSE IF bb_pband > 90 THEN -25
              ELSE 0
        s3 == IF k < 15 /\ d < 20 /\ k > d THEN 35
              ELSE IF k > 85 /\ d > 80 /\ k < d THEN -35
              ELSE IF k < 25 /\ k > d THEN 20
              ELSE IF k > 75 /\ k < d THEN -20
              ELSE 0
    IN  Max(-100, Min(100, s1 + s2 + s3))

_trend_signal(ind) ==
    LET price == ind["price"]
        ma20  == Get(ind, "ma_20", price)
        ma50  == Get(ind, "ma_50", price)
        ema9  == Get(ind, "ema_9", price)
        ema21 == Get(ind, "ema_21", price)
        s1 == IF ema9 * 1000 > ema21 * 1002 THEN 20
              ELSE IF ema9 * 1000 < ema21 * 998 THEN -20
              ELSE 0
        s2 == IF ma20 * 1000 > ma50 * 1005 THEN 25
              ELSE IF ma20 * 1000 < ma50 * 995 THEN -25
              ELSE 0
        above_count == (IF price > ma20 THEN 1 ELSE 0)
                     + (IF price > ma50 THEN 1 ELSE 0)
                     + (IF price > ema21 THEN 1 ELSE 0)
        s3 == IF above_count = 3 THEN 20
              ELSE IF above_count = 0 THEN -20
              ELSE 0
        macd_hist == Get(ind, "macd_hist", 0)
        macd      == Get(ind, "macd", 0)
        signal    == Get(ind, "macd_signal", 0)
        s4 == IF macd_hist > 0 /\ macd > signal THEN 25
              ELSE IF macd_hist < 0 /\ macd < signal THEN -25
              ELSE 0
        adx      == Get(ind, "adx", 20)
        di_plus  == Get(ind, "di_plus", 0)
        di_minus == Get(ind, "di_minus", 0)
        s5 == IF adx > 25
              THEN IF di_plus * 10 > di_minus * 12 THEN 20
                   ELSE IF di_minus * 10 > di_plus * 12 THEN -20
                   ELSE 0
              ELSE 0
    IN  Max(-100, Min(100, s1 + s2 + s3 + s4 + s5))

_volume_signal(ind) ==
    LET vol_ratio  == Get(ind, "volume_ratio", 10)    \* tenths: 1
        obv_change == Get(ind, "obv_change", 0)
        s1 == IF vol_ratio > 25 THEN 30
              ELSE IF vol_ratio > 18 THEN 20
              ELSE IF vol_ratio > 13 THEN 10
              ELSE IF vol_ratio < 5 THEN -15
              ELSE 0
        s2 == IF obv_change > 0 THEN 15 ELSE -15
    IN  Max(-50, Min(50, s1 + s2))

_market_structure(ind) ==
    LET price == ind["price"]
        s1 == Get(ind, "s1", 0)
        r1 == Get(ind, "r1", 0)
        \* dist = (price - level) / level * 100, compared in thousandths
        a == IF s1 > 0
             THEN IF price > s1 /\ (price - s1) * 1000 < 8 * s1 THEN 25
                  ELSE IF (price - s1) * 1000 > -3 * s1 /\ price <= s1 THEN 35
                  ELSE 0
             ELSE 0
        b == IF r1 > 0
             THEN IF (price - r1) * 1000 > -8 * r1 /\ price < r1 THEN -25
                  ELSE IF price >= r1 /\ (price - r1) * 1000 < 3 * r1 THEN -35
                  ELSE 0
             ELSE 0
        fib_382 == Get(ind, "fib_382", 0)
        fib_618 == Get(ind, "fib_618", 0)
        c == IF fib_382 > 0 /\ fib_618 > 0
             THEN IF Abs(price - fib_382) * 1000 < 5 * fib_382 THEN 20
                  ELSE IF Abs(price - fib_618) * 1000 < 5 * fib_618 THEN 25
                  ELSE 0
             ELSE 0
    IN  Max(-60, Min(60, a + b + c))

\* score100 is the score in hundredths of a point
_get_signal_type_open(score100) ==
    IF score100 >= 4500 THEN "STRONG_BUY"
    ELSE IF score100 >= 2800 THEN "BUY"
    ELSE IF score100 < -4500 THEN "STRONG_SELL"
    ELSE IF score100 < -2800 THEN "SELL"
    ELSE "NEUTRAL"

\* score100 is the score in hundredths of a point
_get_signal_type(score100) ==
    IF score100 >= 4500 THEN "STRONG_BUY"
    ELSE IF score100 >= 2800 THEN "BUY"
    ELSE IF score100 <= -4500 THEN "STRONG_SELL"
    ELSE IF score100 <= -2800 THEN "SELL"
    ELSE "NEUTRAL"

\* total_score of analyze, in hundredths of a point
total_score(ind) ==
    LET market_state == _get_market_state(ind)
        mean_rev  == _mean_reversion_signal(ind)
        trend     == _trend_signal(ind)
        volume    == _volume_signal(ind)
        structure == _market_structure(ind)
    IN  IF market_state = "trending"
        THEN trend * 50 + structure * 25 + volume * 25
        ELSE IF market_state = "ranging"
        THEN mean_rev * 50 + structure * 25 + volume * 25
        ELSE (trend + mean_rev) * 35 + structure * 15 + volume * 15

\* ATR in hundredths of a cent, always taken as 1 % of the price
atr_of_price(ind) == ind["price"]

\* ATR in hundredths of a cent: indicators.get('atr', price * 0.01)
atr_of(ind) == IF "atr" \in DOMAIN ind THEN ind["atr"] * 100 ELSE ind["price"]

\* TradingStrategy.analyze: the Signal, or NoSignal for None
analyze(ind) ==
    IF DOMAIN ind = {} \/ "price" \notin DOMAIN ind THEN NoSignal
    ELSE
    LET price  == ind["price"]
        atr100 == atr_of(ind)
        \* atr_pct = atr / price * 100
        gated  == atr100 > 5 * price \/ atr100 * 10 < 3 * price
        score  == total_score(ind)
        ma50   == Get(ind, "ma_50", price)
        ma200  == Get(ind, "ma_200", price)
        against == /\ ma200 > 0
                   /\ \/ ma50 * 100 > ma200 * 102 /\ score < -2000
                      \/ ma50 * 100 < ma200 * 98 /\ score > 2000
        signal_type == _get_signal_type(score)
        stop_loss   == IF score > 0
                       THEN RoundDiv(price * 1000 - atr100 * 28, 1000)
                       ELSE RoundDiv(price * 1000 + atr100 * 28, 1000)
        take_profit == IF score > 0
                       THEN RoundDiv(price * 1000 + atr100 * 16, 1000)
                       ELSE RoundDiv(price * 1000 - atr100 * 16, 1000)
    IN  IF gated THEN NoSignal
        ELSE IF against THEN NoSignal
        ELSE IF Abs(score) < signal_threshold * 100 THEN NoSignal
        ELSE IF signal_type = "NEUTRAL" THEN NoSignal
        ELSE [signal_type |-> signal_type,
              strength    |-> Min(100, Abs(score) \div 100),
              price       |-> price,
              stop_loss   |-> stop_loss,
              take_profit |-> take_profit]

----------------------------------------------------------------------------
(* TrendStrategy (src/strategy_trend.py).  Its scores are whole points. *)

_get_main_trend(ind) ==
    LET price    == ind["price"]
        ma20     == Get(ind, "ma_20", price)
        ma50     == Get(ind, "ma_50", price)
        ema9     == Get(ind, "ema_9", price)
        ema21    == Get(ind, "ema_21", price)
        adx      == Get(ind, "adx", 20)
        di_plus  == Get(ind, "di_plus", 0)
        di_minus == Get(ind, "di_minus", 0)
        up_count == (IF price > ma20 THEN 1 ELSE 0)
                  + (IF price > ma50 THEN 1 ELSE 0)
                  + (IF ema9 > ema21 THEN 1 ELSE 0)
                  + (IF ma20 > ma50 THEN 1 ELSE 0)
                  + (IF di_plus > di_minus THEN 1 ELSE 0)
        down_count == 5 - up_count
    IN  IF adx < 30 THEN "neutral"
        ELSE IF up_count >= 4 THEN "up"
        ELSE IF down_count >= 4 THEN "down"
        ELSE "neutral"

_check_pullback_entry(ind, trend) ==
    LET price    == ind["price"]
        rsi      == Get(ind, "rsi", 50)
        bb_pband == Get(ind, "bb_pband", 50)      \* hundredths: 0.5
        ema21    == Get(ind, "ema_21", price)
        k        == Get(ind, "stoch_k", 50)
        near     == Abs(price - ema21) * 1000 < 8 * ema21
        score ==
            IF trend = "up"
            THEN (IF 30 <= rsi /\ rsi <= 50 THEN 30 ELSE 0)
               + (IF 30 <= bb_pband /\ bb_pband <= 50 THEN 25 ELSE 0)
               + (IF near THEN 25 ELSE 0)
               + (IF 25 <= k /\ k <= 45 THEN 20 ELSE 0)
            ELSE - (IF 50 <= rsi /\ rsi <= 70 THEN 30 ELSE 0)
                 - (IF 50 <= bb_pband /\ bb_pband <= 70 THEN 25 ELSE 0)
                 - (IF near THEN 25 ELSE 0)
                 - (IF 55 <= k /\ k <= 75 THEN 20 ELSE 0)
    IN  [valid |-> Abs(score) >= 45, score |-> score]

\* a momentum check that reads the directional indices only
_check_momentum_di_only(ind, trend) ==
    LET di_plus   == Get(ind, "di_plus", 0)
        di_minus  == Get(ind, "di_minus", 0)
    IN  IF trend = "up" THEN di_plus > di_minus
        ELSE di_minus > di_plus

_check_momentum(ind, trend) ==
    LET macd_hist == Get(ind, "macd_hist", 0)
        di_plus   == Get(ind, "di_plus", 0)
        di_minus  == Get(ind, "di_minus", 0)
    IN  IF trend = "up" THEN macd_hist > 0 /\ di_plus > di_minus
        ELSE macd_hist < 0 /\ di_minus > di_plus

_check_safe_entry(ind, trend) ==
    LET price    == ind["price"]
        s1       == Get(ind, "s1", 0)
        r1       == Get(ind, "r1", 0)
        bb_lower == Get(ind, "bb_lower", 0)
        bb_upper == Get(ind, "bb_upper", 0)
        rsi      == Get(ind, "rsi", 50)
    IN  IF trend = "up"
        THEN \/ s1 > 0 /\ (price - s1) * 200 < 3 * price
             \/ bb_lower > 0 /\ (price - bb_lower) * 50 < price
             \/ rsi < 40
        ELSE \/ r1 > 0 /\ (r1 - price) * 200 < 3 * price
             \/ bb_upper > 0 /\ (bb_upper - price) * 50 < price
             \/ rsi > 60

\* a typing that looks at the size of the score only
TrendStrategy_get_signal_type_unsigned(score) ==
    IF Abs(score) >= 70 THEN "STRONG_BUY"
    ELSE IF Abs(score) >= 60 THEN "BUY"
    ELSE "NEUTRAL"

TrendStrategy_get_signal_type(score) ==
    IF score >= 70 THEN "STRONG_BUY"
    ELSE IF score >= 60 THEN "BUY"
    ELSE IF score <= -70 THEN "STRONG_SELL"
    ELSE IF score <= -60 THEN "SELL"
    ELSE "NEUTRAL"

\* the sub-scores TrendStrategy.analyze computes before it returns
TrendStrategy_scores(ind) ==
    IF DOMAIN ind = {} \/ "price" \notin DOMAIN ind THEN NoScores
    ELSE IF atr_of(ind) > 3 * ind["price"] \/ atr_of(ind) * 10 < 3 * ind["price"]
    THEN NoScores
    ELSE IF _get_main_trend(ind) = "neutral" THEN NoScores
    ELSE [entry_signal |-> _check_pullback_entry(ind, _get_main_trend(ind)).score]

\* TrendStrategy.analyze: the Signal, or NoSignal for None
TrendStrategy_analyze(ind) ==
    IF DOMAIN ind = {} \/ "price" \notin DOMAIN ind THEN NoSignal
    ELSE
    LET price  == ind["price"]
        atr100 == atr_of(ind)
        trend  == _get_main_trend(ind)
        entry_signal == _check_pullback_entry(ind, trend)
        total  == entry_signal.score
        signal_type == TrendStrategy_get_signal_type(total)
        \* sl_mult = 1.2, tp_mult = 2.0
        stop_loss   == IF total > 0
                       THEN RoundDiv(price * 1000 - atr100 * 12, 1000)
                       ELSE RoundDiv(price * 1000 + atr100 * 12, 1000)
        take_profit == IF total > 0
                       THEN RoundDiv(price * 1000 + atr100 * 20, 1000)
                       ELSE RoundDiv(price * 1000 - atr100 * 20, 1000)
    IN  IF atr100 > 3 * price THEN NoSignal
        ELSE IF atr100 * 10 < 3 * price THEN NoSignal
        ELSE IF trend = "neutral" THEN NoSignal
        ELSE IF ~entry_signal.valid THEN NoSignal
        ELSE IF ~_check_momentum(ind, trend) THEN NoSignal
        ELSE IF ~_check_safe_entry(ind, trend) THEN NoSignal
        ELSE IF Abs(total) < 60 THEN NoSignal
        ELSE IF signal_type = "NEUTRAL" THEN NoSignal
        ELSE [signal_type |-> signal_type,
              strength    |-> Min(100, Abs(total)),
              price       |-> price,
              stop_loss   |-> stop_loss,
              take_profit |-> take_profit]

----------------------------------------------------------------------------
(* ComboStrategy (src/strategy_combo.py).  Its scores are whole points. *)

_identify_market_state(ind) ==
    LET adx == Get(ind, "adx", 20)
    IN  IF adx > 30 THEN "trending"
        ELSE IF adx < 18 THEN "ranging"
        ELSE "neutral"

ComboStrategy_trend_signal(ind) ==
    LET price     == ind["price"]
        ma20      == Get(ind, "ma_20", price)
        ma50      == Get(ind, "ma_50", price)
        ema9      == Get(ind, "ema_9", price)
        ema21     == Get(ind, "ema_21", price)
        rsi       == Get(ind, "rsi", 50)
        macd_hist == Get(ind, "macd_hist", 0)
        bb_pband  == Get(ind, "bb_pband", 50)
        di_plus   == Get(ind, "di_plus", 0)
        di_minus  == Get(ind, "di_minus", 0)
        score ==
            IF ema9 > ema21 /\ ma20 > ma50 /\ price > ma20 /\ di_plus > di_minus
            THEN 30 + (IF 30 <= rsi /\ rsi <= 45 THEN 30 ELSE 0)
                    + (IF 25 <= bb_pband /\ bb_pband <= 50 THEN 20 ELSE 0)
                    + (IF macd_hist > 0 THEN 10 ELSE 0)
            ELSE IF ema9 < ema21 /\ ma20 < ma50 /\ price < ma20
                    /\ di_minus > di_plus
            THEN - 30 - (IF 55 <= rsi /\ rsi <= 70 THEN 30 ELSE 0)
                      - (IF 50 <= bb_pband /\ bb_pband <= 75 THEN 20 ELSE 0)
                      - (IF macd_hist < 0 THEN 10 ELSE 0)
            ELSE 0
    IN  [valid |-> Abs(score) >= 50, score |-> score]

ComboStrategy_mean_reversion_signal(ind) ==
    LET rsi      == Get(ind, "rsi", 50)
        bb_pband == Get(ind, "bb_pband", 50)
        k        == Get(ind, "stoch_k", 50)
        score ==
            IF rsi < 25
            THEN 35 + (IF bb_pband < 5 THEN 25 ELSE 0)
                    + (IF k < 15 THEN 20 ELSE 0)
            ELSE IF rsi > 75
            THEN - 35 - (IF bb_pband > 95 THEN 25 ELSE 0)
                      - (IF k > 85 THEN 20 ELSE 0)
            ELSE 0
    IN  [valid |-> Abs(score) >= 50, score |-> score]

ComboStrategy_get_signal_type(score) ==
    IF score >= 70 THEN "STRONG_BUY"
    ELSE IF score >= 60 THEN "BUY"
    ELSE IF score <= -70 THEN "STRONG_SELL"
    ELSE IF score <= -60 THEN "SELL"
    ELSE "NEUTRAL"

\* the sub-score ComboStrategy.analyze computes before it returns
ComboStrategy_scores(ind) ==
    IF DOMAIN ind = {} \/ "price" \notin DOMAIN ind THEN NoScores
    ELSE IF atr_of(ind) > 3 * ind["price"] \/ atr_of(ind) * 10 < 3 * ind["price"]
    THEN NoScores
    ELSE IF _identify_market_state(ind) = "neutral" THEN NoScores
    ELSE IF _identify_market_state(ind) = "trending"
    THEN [trend |-> ComboStrategy_trend_signal(ind).score]
    ELSE [mean_rev |-> ComboStrategy_mean_reversion_signal(ind).score]

\* ComboStrategy.analyze: the Signal, or NoSignal for None
ComboStrategy_analyze(ind) ==
    IF DOMAIN ind = {} \/ "price" \notin DOMAIN ind THEN NoSignal
    ELSE
    LET price  == ind["price"]
        atr100 == atr_of(ind)
        market_state == _identify_market_state(ind)
        chosen == IF market_state = "trending"
                  THEN ComboStrategy_trend_signal(ind)
                  ELSE ComboStrategy_mean_reversion_signal(ind)
        \* trend_sl = 1.2, trend_tp = 2.0, range_sl = 1.0, range_tp = 1.2
        sl_mult == IF market_state = "trending" THEN 12 ELSE 10
        tp_mult == IF market_state = "trending" THEN 20 ELSE 12
        total  == chosen.score
        signal_type == ComboStrategy_get_signal_type(total)
        stop_loss   == IF total > 0
                       THEN RoundDiv(price * 1000 - atr100 * sl_mult, 1000)
                       ELSE RoundDiv(price * 1000 + atr100 * sl_mult, 1000)
        take_profit == IF total > 0
                       THEN RoundDiv(price * 1000 + atr100 * tp_mult, 1000)
                       ELSE RoundDiv(price * 1000 - atr100 * tp_mult, 1000)
    IN  IF atr100 > 3 * price THEN NoSignal
        ELSE IF atr100 * 10 < 3 * price THEN NoSignal
        ELSE IF market_state = "neutral" THEN NoSignal
        ELSE IF ~chosen.valid THEN NoSignal
        ELSE IF Abs(total) < 60 THEN NoSignal
        ELSE IF signal_type = "NEUTRAL" THEN NoSignal
        ELSE [signal_type |-> signal_type,
              strength    |-> Min(100, Abs(total)),
              price       |-> price,
              stop_loss   |-> stop_loss,
              take_profit |-> take_profit]

----------------------------------------------------------------------------
(* OvernightStrategy (src/strategy_overnight.py).  The total score is in  *)
(* tenths of a point; the levels are computed in ten-thousandths of a     *)
(* cent, where every multiple of ATR the code uses is a whole number.     *)

OvernightStrategy_mean_reversion_signal(ind) ==
    LET rsi      == Get(ind, "rsi", 50)
        bb_pband == Get(ind, "bb_pband", 50)      \* hundredths: 0.5
        k        == Get(ind, "stoch_k", 50)
        d        == Get(ind, "stoch_d", 50)
        \* rsi_oversold = 30, rsi_overbought = 75
        s1 == IF rsi < 30 THEN 45
              ELSE IF rsi < 40 THEN 30
              ELSE IF rsi > 75 THEN -45
              ELSE IF rsi > 65 THEN -30
              ELSE 0
        s2 == IF bb_pband < 0 THEN 40
              ELSE IF bb_pband < 15 THEN 25
              ELSE IF bb_pband > 100 THEN -40
              ELSE IF bb_pband > 85 THEN -25
              ELSE 0
        s3 == IF k < 20 /\ d < 25 THEN 30
              ELSE IF k > 80 /\ d > 75 THEN -30
              ELSE 0
    IN  Max(-100, Min(100, s1 + s2 + s3))

OvernightStrategy_market_structure(ind) ==
    LET price   == ind["price"]
        s1      == Get(ind, "s1", 0)
        r1      == Get(ind, "r1", 0)
        fib_382 == Get(ind, "fib_382", 0)
        fib_618 == Get(ind, "fib_618", 0)
        a == IF s1 > 0
             THEN IF price > s1 /\ (price - s1) * 100 < s1 THEN 35
                  ELSE IF price <= s1 /\ (s1 - price) * 200 < s1 THEN 45
                  ELSE 0
             ELSE 0
        b == IF r1 > 0
             THEN IF price < r1 /\ (r1 - price) * 100 < r1 THEN -35
                  ELSE IF price >= r1 /\ (price - r1) * 200 < r1 THEN -45
                  ELSE 0
             ELSE 0
        c == IF fib_618 > 0 /\ Abs(price - fib_618) * 1000 < 8 * fib_618 THEN 25
             ELSE IF fib_382 > 0 /\ Abs(price - fib_382) * 1000 < 8 * fib_382
             THEN 20
             ELSE 0
    IN  Max(-80, Min(80, a + b + c))

_momentum_signal(ind) ==
    LET macd_hist == Get(ind, "macd_hist", 0)
        vol_ratio == Get(ind, "volume_ratio", 10)     \* tenths: 1
        s1 == IF macd_hist > 0 THEN 15 ELSE -15
        s2 == IF vol_ratio > 15 THEN 10
              ELSE IF vol_ratio < 6 THEN -10
              ELSE 0
    IN  Max(-30, Min(30, s1 + s2))

OvernightStrategy_get_signal_type(score10) ==
    IF score10 >= 500 THEN "STRONG_BUY"
    ELSE IF score10 >= 300 THEN "BUY"
    ELSE IF score10 <= -500 THEN "STRONG_SELL"
    ELSE IF score10 <= -300 THEN "SELL"
    ELSE "NEUTRAL"

\* total_score of OvernightStrategy.analyze, in tenths of a point
OvernightStrategy_total_score(ind) ==
    OvernightStrategy_mean_reversion_signal(ind) * 5
    + OvernightStrategy_market_structure(ind) * 3
    + _momentum_signal(ind) * 2

\* the largest and the smallest member of a non-empty set of integers
SetMax(S) == CHOOSE x \in S : \A y \in S : y <= x

SetMin(S) == CHOOSE x \in S : \A y \in S : x <= y

\* the candidate stops of _calculate_dynamic_levels, in ten-thousandths of a
\* cent; atr100 is the ATR in hundredths of a cent
sl_candidates(ind, score, price, atr100) ==
    LET P        == price * 10000
        s1       == Get(ind, "s1", 0) * 10000
        r1       == Get(ind, "r1", 0) * 10000
        bb_lower == IF "bb_lower" \in DOMAIN ind THEN ind["bb_lower"] * 10000
                    ELSE P - 200 * atr100
        bb_upper == IF "bb_upper" \in DOMAIN ind THEN ind["bb_upper"] * 10000
                    ELSE P + 200 * atr100
    IN  IF score > 0
        THEN {P - 80 * atr100}
             \cup (IF s1 > 0 /\ s1 < P THEN {s1 - 10 * atr100} ELSE {})
             \cup (IF bb_lower > 0 /\ bb_lower < P
                   THEN {bb_lower - 10 * atr100} ELSE {})
        ELSE {P + 80 * atr100}
             \cup (IF r1 > 0 /\ r1 > P THEN {r1 + 10 * atr100} ELSE {})
             \cup (IF bb_upper > 0 /\ bb_upper > P
                   THEN {bb_upper + 10 * atr100} ELSE {})

\* the candidate targets of _calculate_dynamic_levels
tp_candidates(ind, score, price, atr100) ==
    LET P         == price * 10000
        s1        == Get(ind, "s1", 0) * 10000
        r1        == Get(ind, "r1", 0) * 10000
        bb_lower  == IF "bb_lower" \in DOMAIN ind THEN ind["bb_lower"] * 10000
                     ELSE P - 200 * atr100
        bb_upper  == IF "bb_upper" \in DOMAIN ind THEN ind["bb_upper"] * 10000
                     ELSE P + 200 * atr100
        bb_middle == Get(ind, "bb_middle", price) * 10000
    IN  IF score > 0
        THEN {P + 150 * atr100}
             \cup (IF r1 > 0 /\ r1 > P THEN {r1 - 5 * atr100} ELSE {})
             \cup (IF bb_middle > P THEN {bb_middle} ELSE {})
             \cup (IF bb_upper > P THEN {bb_upper - 10 * atr100} ELSE {})
        ELSE {P - 150 * atr100}
             \cup (IF s1 > 0 /\ s1 < P THEN {s1 + 5 * atr100} ELSE {})
             \cup (IF bb_middle < P THEN {bb_middle} ELSE {})
             \cup (IF bb_lower < P THEN {bb_lower + 10 * atr100} ELSE {})

\* the stop chosen among the candidates at least 0.5 ATR away
dynamic_stop(ind, score, price, atr100) ==
    LET P == price * 10000
        valid_sls == {sl \in sl_candidates(ind, score, price, atr100) :
                         IF score > 0 THEN P - sl >= 50 * atr100
                         ELSE sl - P >= 50 * atr100}
    IN  IF score > 0
        THEN IF valid_sls # {} THEN SetMax(valid_sls) ELSE P - 80 * atr100
        ELSE IF valid_sls # {} THEN SetMin(valid_sls) ELSE P + 80 * atr100

\* a target chosen as the nearest candidate on the profit side, whatever the
\* stop distance
dynamic_target_nearest(ind, score, price, atr100, stop) ==
    LET P == price * 10000
        valid_tps == {tp \in tp_candidates(ind, score, price, atr100) :
                         IF score > 0 THEN tp > P ELSE tp < P}
    IN  IF score > 0
        THEN IF valid_tps # {} THEN SetMin(valid_tps) ELSE P + 150 * atr100
        ELSE IF valid_tps # {} THEN SetMax(valid_tps) ELSE P - 150 * atr100

\* the target chosen among the candidates at least the stop distance away
dynamic_target(ind, score, price, atr100, stop) ==
    LET P == price * 10000
        min_tp == IF score > 0 THEN P + (P - stop) ELSE P - (stop - P)
        valid_tps == {tp \in tp_candidates(ind, score, price, atr100) :
                         IF score > 0 THEN tp >= min_tp ELSE tp <= min_tp}
    IN  IF score > 0
        THEN IF valid_tps # {} THEN SetMin(valid_tps) ELSE P + 150 * atr100
        ELSE IF valid_tps # {} THEN SetMax(valid_tps) ELSE P - 150 * atr100

\* OvernightStrategy._calculate_dynamic_levels: (stop_loss, take_profit) in
\* cents
_calculate_dynamic_levels(ind, score, price, atr100) ==
    LET stop == dynamic_stop(ind, score, price, atr100)
        take == dynamic_target(ind, score, price, atr100, stop)
    IN  [stop_loss |-> RoundDiv(stop, 10000), take_profit |-> RoundDiv(take, 10000)]

\* the sub-scores OvernightStrategy.analyze computes before it returns
OvernightStrategy_scores(ind) ==
    IF DOMAIN ind = {} \/ "price" \notin DOMAIN ind THEN NoScores
    ELSE IF atr_of(ind) > 3 * ind["price"] \/ atr_of(ind) * 10 < 2 * ind["price"]
    THEN NoScores
    ELSE [mean_rev  |-> OvernightStrategy_mean_reversion_signal(ind),
          structure |-> OvernightStrategy_market_structure(ind),
          momentum  |-> _momentum_signal(ind)]

\* OvernightStrategy.analyze: the Signal, or NoSignal for None
OvernightStrategy_analyze(ind) ==
    IF DOMAIN ind = {} \/ "price" \notin DOMAIN ind THEN NoSignal
    ELSE
    LET price  == ind["price"]
        atr100 == atr_of(ind)
        total  == OvernightStrategy_total_score(ind)
        signal_type == OvernightStrategy_get_signal_type(total)
        levels == _calculate_dynamic_levels(ind, total, price, atr100)
    IN  IF atr100 > 3 * price \/ atr100 * 10 < 2 * price THEN NoSignal
        \* self.config.get('signal_threshold', 50)
        ELSE IF Abs(total) < 500 THEN NoSignal
        ELSE IF signal_type = "NEUTRAL" THEN NoSignal
        ELSE [signal_type |-> signal_type,
              strength    |-> Min(100, Abs(total) \div 10),
              price       |-> price,
              stop_loss   |-> levels.stop_loss,
              take_profit |-> levels.take_profit]

----------------------------------------------------------------------------
(* BreakoutStrategy (src/strategy_breakout.py).  Its scores are whole     *)
(* points; the breakout level is in ten-thousandths of a cent.            *)

\* the detection with the test of the support level S1 reversed
_detect_breakout_above_support(ind) ==
    LET price    == ind["price"]
        P        == price * 10000
        bb_upper == IF "bb_upper" \in DOMAIN ind THEN ind["bb_upper"] * 10000
                    ELSE price * 10200
        bb_lower == IF "bb_lower" \in DOMAIN ind THEN ind["bb_lower"] * 10000
                    ELSE price * 9800
        bb_pband == Get(ind, "bb_pband", 50)      \* hundredths: 0.5
        r1       == Get(ind, "r1", 0)
        s1       == Get(ind, "s1", 0)
        high_20  == Get(ind, "high_20", price)
        low_20   == Get(ind, "low_20", price)
        adx      == Get(ind, "adx", 20)
        up1 == bb_pband > 100
        up2 == price * 1000 > high_20 * 998
        up3 == r1 > 0 /\ price > r1
        dn1 == bb_pband < 0
        dn2 == price * 1000 < low_20 * 1002
        dn3 == s1 > 0 /\ price > s1
        up_breakout   == up1 \/ up2 \/ up3
        down_breakout == dn1 \/ dn2 \/ dn3
        score == (IF up1 THEN 40 ELSE 0) + (IF up2 THEN 35 ELSE 0)
               + (IF up3 THEN 30 ELSE 0)
               - (IF dn1 THEN 40 ELSE 0) - (IF dn2 THEN 35 ELSE 0)
               - (IF dn3 THEN 30 ELSE 0)
               + (IF adx > 25
                  THEN IF up_breakout THEN 20
                       ELSE IF down_breakout THEN -20 ELSE 0
                  ELSE 0)
        \* the level assigned last wins
        breakout_level ==
            IF dn3 THEN s1 * 10000
            ELSE IF dn2 THEN low_20 * 10000
            ELSE IF dn1 THEN bb_lower
            ELSE IF up3 THEN r1 * 10000
            ELSE IF up2 THEN high_20 * 10000
            ELSE IF up1 THEN bb_upper
            ELSE P
    IN  [valid |-> up_breakout \/ down_breakout, score |-> score,
         breakout_level |-> breakout_level]

_detect_breakout(ind) ==
    LET price    == ind["price"]
        P        == price * 10000
        bb_upper == IF "bb_upper" \in DOMAIN ind THEN ind["bb_upper"] * 10000
                    ELSE price * 10200
        bb_lower == IF "bb_lower" \in DOMAIN ind THEN ind["bb_lower"] * 10000
                    ELSE price * 9800
        bb_pband == Get(ind, "bb_pband", 50)      \* hundredths: 0.5
        r1       == Get(ind, "r1", 0)
        s1       == Get(ind, "s1", 0)
        high_20  == Get(ind, "high_20", price)
        low_20   == Get(ind, "low_20", price)
        adx      == Get(ind, "adx", 20)
        up1 == bb_pband > 100
        up2 == price * 1000 > high_20 * 998
        up3 == r1 > 0 /\ price > r1
        dn1 == bb_pband < 0
        dn2 == price * 1000 < low_20 * 1002
        dn3 == s1 > 0 /\ price < s1
        up_breakout   == up1 \/ up2 \/ up3
        down_breakout == dn1 \/ dn2 \/ dn3
        score == (IF up1 THEN 40 ELSE 0) + (IF up2 THEN 35 ELSE 0)
               + (IF up3 THEN 30 ELSE 0)
               - (IF dn1 THEN 40 ELSE 0) - (IF dn2 THEN 35 ELSE 0)
               - (IF dn3 THEN 30 ELSE 0)
               + (IF adx > 25
                  THEN IF up_breakout THEN 20
                       ELSE IF down_breakout THEN -20 ELSE 0
                  ELSE 0)
        \* the level assigned last wins
        breakout_level ==
            IF dn3 THEN s1 * 10000
            ELSE IF dn2 THEN low_20 * 10000
            ELSE IF dn1 THEN bb_lower
            ELSE IF up3 THEN r1 * 10000
            ELSE IF up2 THEN high_20 * 10000
            ELSE IF up1 THEN bb_upper
            ELSE P
    IN  [valid |-> up_breakout \/ down_breakout, score |-> score,
         breakout_level |-> breakout_level]

\* a typing that takes every score beyond the thresholds for a buy
BreakoutStrategy_get_signal_type_buy(score) ==
    IF Abs(score) >= 70 THEN "STRONG_BUY"
    ELSE IF Abs(score) >= 50 THEN "BUY"
    ELSE "NEUTRAL"

BreakoutStrategy_get_signal_type(score) ==
    IF score >= 70 THEN "STRONG_BUY"
    ELSE IF score >= 50 THEN "BUY"
    ELSE IF score <= -70 THEN "STRONG_SELL"
    ELSE IF score <= -50 THEN "SELL"
    ELSE "NEUTRAL"

\* the sub-score BreakoutStrategy.analyze computes before it returns
BreakoutStrategy_scores(ind) ==
    IF DOMAIN ind = {} \/ "price" \notin DOMAIN ind THEN NoScores
    ELSE IF atr_of(ind) > 4 * ind["price"] \/ atr_of(ind) * 10 < 3 * ind["price"]
    THEN NoScores
    ELSE [breakout |-> _detect_breakout(ind).score]

\* BreakoutStrategy.analyze: the Signal, or NoSignal for None
BreakoutStrategy_analyze(ind) ==
    IF DOMAIN ind = {} \/ "price" \notin DOMAIN ind THEN NoSignal
    ELSE
    LET price     == ind["price"]
        atr100    == atr_of(ind)
        breakout  == _detect_breakout(ind)
        vol_ratio == Get(ind, "volume_ratio", 10)     \* tenths: 1
        total     == breakout.score
        signal_type == BreakoutStrategy_get_signal_type(total)
        \* stop 0.5 ATR beyond the breakout level, target 3.0 ATR from price
        stop_loss   == IF total > 0
                       THEN RoundDiv(breakout.breakout_level - atr100 * 50, 10000)
                       ELSE RoundDiv(breakout.breakout_level + atr100 * 50, 10000)
        take_profit == IF total > 0
                       THEN RoundDiv(price * 10000 + atr100 * 300, 10000)
                       ELSE RoundDiv(price * 10000 - atr100 * 300, 10000)
    IN  IF atr100 > 4 * price \/ atr100 * 10 < 3 * price THEN NoSignal
        ELSE IF ~breakout.valid THEN NoSignal
        ELSE IF vol_ratio < 15 THEN NoSignal
        ELSE IF Abs(total) < 50 THEN NoSignal
        ELSE IF signal_type = "NEUTRAL" THEN NoSignal
        ELSE [signal_type |-> signal_type,
              strength    |-> Min(100, Abs(total)),
              price       |-> price,
              stop_loss   |-> stop_loss,
              take_profit |-> take_profit]

----------------------------------------------------------------------------
(* Sub-scores of TradingStrategy *)

\* the sub-scores TradingStrategy.analyze computes before it returns
TradingStrategy_scores(ind) ==
    IF DOMAIN ind = {} \/ "price" \notin DOMAIN ind THEN NoScores
    ELSE IF atr_of(ind) > 5 * ind["price"] \/ atr_of(ind) * 10 < 3 * ind["price"]
    THEN NoScores
    ELSE [mean_rev  |-> _mean_reversion_signal(ind),
          trend     |-> _trend_signal(ind),
          volume    |-> _volume_signal(ind),
          structure |-> _market_structure(ind)]

----------------------------------------------------------------------------
(* Replay engines: state *)

\* for i in range(50, len(df))
FirstBar == 50

\* self.initial_capital = 10000 dollars, in cents
initial_capital == 1000000

Engines == {"backtest", "backtest_all", "compare_strategies", "backtest_trend"}

\* the leveraged replays: backtest_strategy, compare_strategies.run_backtest,
\* backtest_trend.backtest and optimize_trend_fast.run_backtest_fast
Leveraged == (Engines \ {"backtest"}) \cup {"run_backtest_fast"}

NoPosition ==
    [signal_type |-> "None", entry_time |-> 0, entry_price |-> 0,
     stop_loss |-> 0, take_profit |-> 0, position_size |-> 0]

NoBar == [low |-> 0, high |-> 0, close |-> 0]

NoResult ==
    [kind |-> "pending", final_capital |-> 0, total_trades |-> 0,
     winning_trades |-> 0, losing_trades |-> 0]

VARIABLES
    engine,              \* which replay loop runs
    leverage,            \* leverage parameter of the leveraged replays
    pc,                  \* position of the replay in its code
    i,                   \* index of the current bar
    current_bar,         \* df.iloc[i]
    position,            \* the open position, NoPosition for None
    capital,
    equity_curve,        \* Backtester only
    trades,              \* the trade log (self.trades in Backtester)
    consecutive_losses,  \* Backtester only
    cooldown_bars,       \* Backtester only
    steps,               \* steps of the loop body done on the current bar
    opened,              \* number of positions created so far
    run,                 \* 1 for the first call of run_backtest, 2 for a second
    result,              \* value returned by the run
    first_result,        \* value returned by the first call, once a second began
    df,                  \* the recorded bars when a run is repeated on them
    signal,              \* the value strategy.analyze returned last
    strategy,            \* the strategy class whose analyze is applied
    snapshot,            \* the indicator snapshot handed to analyze
    scores,              \* the sub-scores analyze computed on the snapshot
    results,             \* the list main collects the results of its runs in
    signal_timestamp,    \* the timestamp field of the value analyze returned
    now,                 \* datetime.now() of the running bot, in minutes
    cycle,               \* number of calls of _analyze_cycle so far
    startup_delay,       \* MultiStrategyBot.startup_delay
    last_signal_time,    \* time of the last signal per strategy and timeframe
    last_alert_time,     \* MultiStrategyBot.last_alert_time, per alert key
    sent,                \* the notifications handed to the notifier, in order
    timeframe,           \* position in timeframes of the frame being handled
    data_cache,          \* DataFetcher.data_cache, per timeframe
    attempts,            \* exchange calls made by the fetch in progress
    outcome,             \* how the last exchange call ended
    fetched              \* what the fetch in progress has returned

vars ==
    <<engine, leverage, pc, i, current_bar, position, capital, equity_curve,
      trades, consecutive_losses, cooldown_bars, steps, opened, run, result,
      first_result, df, signal, strategy, snapshot, scores, results,
      signal_timestamp, now, cycle, startup_delay, last_signal_time,
      last_alert_time, sent, timeframe, data_cache, attempts, outcome,
      fetched>>

\* what a replay never touches: it is handed a strategy object and a snapshot
\* per bar, sees nothing of analyze but the signal, and returns its result
\* to the caller that collects it
\* the state of the running bot and of its DataFetcher
live_vars ==
    <<now, cycle, startup_delay, last_signal_time, last_alert_time, sent,
      timeframe, data_cache, attempts, outcome, fetched>>

analysis_vars ==
    <<strategy, snapshot, scores, results, signal_timestamp, live_vars>>

\* the bot and its DataFetcher as their constructors leave them: no signal
\* and no alert recorded, nothing sent, nothing cached; only
\* MultiStrategyBot has the startup flag
LiveStart ==
    /\ now = 1
    /\ cycle = 0
    /\ startup_delay = (engine = "MultiStrategyBot")
    /\ last_signal_time = <<>>
    /\ last_alert_time = <<>>
    /\ sent = <<>>
    /\ timeframe = 0
    /\ data_cache = <<>>
    /\ attempts = 0
    /\ outcome = "none"
    /\ fetched = "none"

\* the stamp of a value that is no Signal: None has no timestamp field
NoTime == 0

\* datetime.now() at the return of analyze: a reading of the real clock,
\* taken when the replay runs, after the last bar of the history it replays
datetime_now == {1000, 2000}

----------------------------------------------------------------------------
(* Replay engines: helpers shared by the loops *)

IsLong(pos) == pos.signal_type \in BuySide

\* the check with the take-profit tested before the stop
check_exit_target_first(pos, bar) ==
    IF IsLong(pos)
    THEN IF bar.high >= pos.take_profit
         THEN [exit_reason |-> "take_profit", exit_price |-> pos.take_profit]
         ELSE IF bar.low <= pos.stop_loss
         THEN [exit_reason |-> "stop_loss", exit_price |-> pos.stop_loss]
         ELSE [exit_reason |-> "none", exit_price |-> 0]
    ELSE IF bar.low <= pos.take_profit
         THEN [exit_reason |-> "take_profit", exit_price |-> pos.take_profit]
         ELSE IF bar.high >= pos.stop_loss
         THEN [exit_reason |-> "stop_loss", exit_price |-> pos.stop_loss]
         ELSE [exit_reason |-> "none", exit_price |-> 0]

\* stop-loss / take-profit check of one bar, stop first
check_exit(pos, bar) ==
    IF IsLong(pos)
    THEN IF bar.low <= pos.stop_loss
         THEN [exit_reason |-> "stop_loss", exit_price |-> pos.stop_loss]
         ELSE IF bar.high >= pos.take_profit
         THEN [exit_reason |-> "take_profit", exit_price |-> pos.take_profit]
         ELSE [exit_reason |-> "none", exit_price |-> 0]
    ELSE IF bar.high >= pos.stop_loss
         THEN [exit_reason |-> "stop_loss", exit_price |-> pos.stop_loss]
         ELSE IF bar.low <= pos.take_profit
         THEN [exit_reason |-> "take_profit", exit_price |-> pos.take_profit]
         ELSE [exit_reason |-> "none", exit_price |-> 0]

\* the pnl_pct of a long, whatever the direction
pnl_pct_of_long(pos, exit_price) ==
    Frac(exit_price - pos.entry_price, pos.entry_price)

\* pnl_pct of a close at exit_price, as an exact fraction
pnl_pct_of(pos, exit_price) ==
    IF IsLong(pos)
    THEN Frac(exit_price - pos.entry_price, pos.entry_price)
    ELSE Frac(pos.entry_price - exit_price, pos.entry_price)

\* a closed trade stamped with the bar of its entry
ClosedTrade_at_entry(pos, exit_time, exit_price, exit_reason, pnl_pct, pnl) ==
    [signal_type   |-> pos.signal_type,
     entry_time    |-> pos.entry_time,
     entry_price   |-> pos.entry_price,
     stop_loss     |-> pos.stop_loss,
     take_profit   |-> pos.take_profit,
     position_size |-> pos.position_size,
     exit_time     |-> pos.entry_time,
     exit_price    |-> exit_price,
     exit_reason   |-> exit_reason,
     pnl_pct       |-> pnl_pct,
     pnl           |-> pnl]

ClosedTrade(pos, exit_time, exit_price, exit_reason, pnl_pct, pnl) ==
    [signal_type   |-> pos.signal_type,
     entry_time    |-> pos.entry_time,
     entry_price   |-> pos.entry_price,
     stop_loss     |-> pos.stop_loss,
     take_profit   |-> pos.take_profit,
     position_size |-> pos.position_size,
     exit_time     |-> exit_time,
     exit_price    |-> exit_price,
     exit_reason   |-> exit_reason,
     pnl_pct       |-> pnl_pct,
     pnl           |-> pnl]

----------------------------------------------------------------------------
(* Inputs of a replay: the bars of df and the snapshots computed from them *)

\* largest number of bars replayed in one run
MaxBars == 3

\* bars as [low, high, close] with low <= close <= high: a quiet bar at
\* either close, a bar spiking down, a bar spiking up, a bar doing both
Bars ==
    {[low |-> 9800, high |-> 10600, close |-> 10000],
     [low |-> 9800, high |-> 10600, close |-> 10500],
     [low |-> 8000, high |-> 10600, close |-> 10000],
     [low |-> 9800, high |-> 12000, close |-> 10500],
     [low |-> 8000, high |-> 12000, close |-> 10000]}

\* indicator values around a price in an up-trend (trending regime)
UpTrend(p) ==
    [adx |-> 35, bb_width |-> 50, ema_9 |-> p, ema_21 |-> p - 100,
     ma_20 |-> p - 100, ma_50 |-> p - 200, ma_200 |-> p - 300,
     macd_hist |-> 5, macd |-> 10, macd_signal |-> 5,
     di_plus |-> 30, di_minus |-> 10, volume_ratio |-> 10, obv_change |-> 1]

\* the mirror image, a down-trend
DownTrend(p) ==
    [adx |-> 35, bb_width |-> 50, ema_9 |-> p, ema_21 |-> p + 100,
     ma_20 |-> p + 100, ma_50 |-> p + 200, ma_200 |-> p + 300,
     macd_hist |-> -5, macd |-> -10, macd_signal |-> -5,
     di_plus |-> 10, di_minus |-> 30, volume_ratio |-> 10, obv_change |-> 0]

\* weaker variants: the MACD cross missing, MACD and DI dominance missing
NoMacd == [macd_hist |-> 0, macd |-> 0, macd_signal |-> 0]

NoMacdNoDi == [macd_hist |-> 0, macd |-> 0, macd_signal |-> 0,
               di_plus |-> 20, di_minus |-> 20]

\* snapshots calculate_all can return for a bar closing at price p: the
\* trends at an ATR of 5 dollars, and snapshots that yield no signal (a
\* directionless market, an ATR outside the band, nothing but the price)
Snapshots(p) ==
    LET trade == {UpTrend(p), NoMacd @@ UpTrend(p), NoMacdNoDi @@ UpTrend(p),
                  DownTrend(p)}
    IN  {[price |-> p, atr |-> 500] @@ sh : sh \in trade}
        \cup {[price |-> p, atr |-> 500], [price |-> p, atr |-> 0] @@ UpTrend(p),
              [price |-> p, atr |-> 600] @@ DownTrend(p), [price |-> p]}

----------------------------------------------------------------------------
(* Backtester.run_backtest (src/backtest.py) *)

\* the loop body with the entry step ahead of the cooldown countdown
StepAfter_entry_first(eng, step) ==
    IF eng = "backtest"
    THEN CASE step = "check_exit"    -> "check_entry"
           [] step = "check_entry"   -> "cooldown_tick"
           [] step = "cooldown_tick" -> "record_equity"
           [] OTHER                  -> "loop"
    ELSE CASE step = "check_exit"    -> "check_entry"
           [] OTHER                  -> "loop"

\* order of the steps of one pass through the loop body
StepAfter(eng, step) ==
    IF eng = "backtest"
    THEN CASE step = "check_exit"    -> "cooldown_tick"
           [] step = "cooldown_tick" -> "check_entry"
           [] step = "check_entry"   -> "record_equity"
           [] OTHER                  -> "loop"
    ELSE CASE step = "check_exit"    -> "check_entry"
           [] OTHER                  -> "loop"

\* what follows the for loop
AfterLoop(eng) ==
    IF eng \in {"backtest", "backtest_trend"} THEN "forced_close" ELSE "stats"

\* for i in range(50, len(df)): current_bar = df.iloc[i], while fewer than
\* nbars bars have been replayed
LoopHead(bar, nbars) ==
    /\ pc = "loop"
    /\ i + 1 < FirstBar + nbars
    /\ i' = i + 1
    /\ current_bar' = bar
    /\ steps' = <<>>
    /\ pc' = "check_exit"
    /\ UNCHANGED <<engine, leverage, position, capital, equity_curve, trades,
                   consecutive_losses, cooldown_bars, opened, run, result,
                   first_result, df>>
    /\ UNCHANGED <<signal, analysis_vars>>

\* the loop runs out of bars, after the bar of index last or a later one
LoopExit(last) ==
    /\ pc = "loop"
    /\ i >= last
    /\ pc' = AfterLoop(engine)
    /\ UNCHANGED <<engine, leverage, i, current_bar, position, capital,
                   equity_curve, trades, consecutive_losses, cooldown_bars,
                   steps, opened, run, result, first_result, df>>
    /\ UNCHANGED <<signal, analysis_vars>>

\* a pnl computed from the size of the move only
pnl_backtest_unsigned(cap, pos, pp) ==
    Scale(cap, pos.position_size * Abs(pp[1]), 100 * pp[2])

\* position.pnl = capital * position.position_size * position.pnl_pct
pnl_backtest(cap, pos, pp) == Scale(cap, pos.position_size * pp[1], 100 * pp[2])

\* a cooldown of six bars after the third loss
risk_after_close_six(pnl, losses, cooldown) ==
    IF pnl < 0
    THEN [consecutive_losses |-> losses + 1,
          cooldown_bars |-> IF losses + 1 >= 3 THEN 6 ELSE cooldown]
    ELSE [consecutive_losses |-> 0, cooldown_bars |-> cooldown]

\* a cooldown armed by the third loss of a streak only
risk_after_close_third_only(pnl, losses, cooldown) ==
    IF pnl < 0
    THEN [consecutive_losses |-> losses + 1,
          cooldown_bars |-> IF losses + 1 = 3 THEN 5 ELSE cooldown]
    ELSE [consecutive_losses |-> 0, cooldown_bars |-> cooldown]

\* consecutive-loss counter and cooldown after a close with this pnl
risk_after_close(pnl, losses, cooldown) ==
    IF pnl < 0
    THEN [consecutive_losses |-> losses + 1,
          cooldown_bars |-> IF losses + 1 >= 3 THEN 5 ELSE cooldown]
    ELSE [consecutive_losses |-> 0, cooldown_bars |-> cooldown]

\* "check if the position must be closed": lines 97-140
CheckExit ==
    /\ engine = "backtest"
    /\ pc = "check_exit"
    /\ pc' = StepAfter(engine, "check_exit")
    /\ steps' = Append(steps, "check_exit")
    /\ IF position # NoPosition
          /\ check_exit(position, current_bar).exit_reason # "none"
       THEN LET x    == check_exit(position, current_bar)
                pp   == pnl_pct_of(position, x.exit_price)
                pnl  == pnl_backtest(capital, position, pp)
                risk == risk_after_close(pnl, consecutive_losses, cooldown_bars)
            IN  /\ capital' = capital + pnl
                /\ consecutive_losses' = risk.consecutive_losses
                /\ cooldown_bars' = risk.cooldown_bars
                /\ trades' = Append(trades,
                       ClosedTrade(position, i, x.exit_price, x.exit_reason,
                                   pp, pnl))
                /\ position' = NoPosition
       ELSE UNCHANGED <<capital, consecutive_losses, cooldown_bars, trades,
                        position>>
    /\ UNCHANGED <<engine, leverage, i, current_bar, equity_curve, opened, run,
                   result, first_result, df>>
    /\ UNCHANGED <<signal, analysis_vars>>

\* "cooldown countdown": lines 142-144
CooldownTick ==
    /\ engine = "backtest"
    /\ pc = "cooldown_tick"
    /\ pc' = StepAfter(engine, "cooldown_tick")
    /\ steps' = Append(steps, "cooldown_tick")
    /\ cooldown_bars' = IF cooldown_bars > 0 THEN cooldown_bars - 1
                        ELSE cooldown_bars
    /\ UNCHANGED <<engine, leverage, i, current_bar, position, capital,
                   equity_curve, trades, consecutive_losses, opened, run,
                   result, first_result, df>>
    /\ UNCHANGED <<signal, analysis_vars>>

\* a size that ignores the losing streak
base_size_unhalved(strength, losses) ==
    IF strength >= 50 THEN 100
    ELSE IF strength >= 40 THEN 80
    ELSE 60

\* dynamic position size in percent: lines 151-162
base_size(strength, losses) ==
    LET base == IF strength >= 50 THEN 100
                ELSE IF strength >= 40 THEN 80
                ELSE 60
    IN  IF losses >= 2 THEN base \div 2 ELSE base

\* the gate without the test of the cooldown
entry_gate_no_cooldown(pos, cooldown) == pos = NoPosition

\* may the entry step ask the strategy for a signal: line 147
entry_gate(pos, cooldown) == pos = NoPosition /\ cooldown = 0

\* "generate a new signal": lines 146-175, on the snapshot ind of this bar
Entry(ind) ==
    /\ engine = "backtest"
    /\ pc = "check_entry"
    /\ pc' = StepAfter(engine, "check_entry")
    /\ steps' = Append(steps, "check_entry")
    /\ IF entry_gate(position, cooldown_bars)
       THEN /\ signal' = analyze(ind)
            /\ \E reading \in datetime_now :
                   signal_timestamp' =
                       IF signal' = NoSignal THEN NoTime ELSE reading
            /\ IF signal' # NoSignal /\ signal'.signal_type # "NEUTRAL"
               THEN /\ position' =
                          [signal_type   |-> signal'.signal_type,
                           entry_time    |-> i,
                           entry_price   |-> current_bar.close,
                           stop_loss     |-> signal'.stop_loss,
                           take_profit   |-> signal'.take_profit,
                           position_size |->
                               base_size(signal'.strength, consecutive_losses)]
                    /\ opened' = opened + 1
               ELSE UNCHANGED <<position, opened>>
       ELSE UNCHANGED <<signal, position, opened, signal_timestamp>>
    /\ UNCHANGED <<engine, leverage, i, current_bar, capital, equity_curve,
                   trades, consecutive_losses, cooldown_bars, run, result,
                   first_result, df, strategy, snapshot, scores, results,
                   live_vars>>

\* the mark of a long, whatever the direction
unrealized_long(cap, pos, price) ==
    Scale(cap, price - pos.entry_price, pos.entry_price)

\* unrealized = capital * (price - entry) / entry, signed by direction
unrealized(cap, pos, price) ==
    LET pp == pnl_pct_of(pos, price)
    IN  Scale(cap, pp[1], pp[2])

\* "record the equity curve": lines 177-190
RecordEquity ==
    /\ engine = "backtest"
    /\ pc = "record_equity"
    /\ pc' = StepAfter(engine, "record_equity")
    /\ steps' = Append(steps, "record_equity")
    /\ LET current_price  == current_bar.close
           current_equity ==
               IF position # NoPosition
               THEN capital + unrealized(capital, position, current_price)
               ELSE capital
       IN  equity_curve' = Append(equity_curve,
               [time |-> i, equity |-> current_equity, price |-> current_price])
    /\ UNCHANGED <<engine, leverage, i, current_bar, position, capital, trades,
                   consecutive_losses, cooldown_bars, opened, run, result,
                   first_result, df>>
    /\ UNCHANGED <<signal, analysis_vars>>

\* position.pnl = capital * position.pnl_pct of the forced close: line 203
pnl_forced_close(cap, pos, pp) == Scale(cap, pp[1], pp[2])

\* "force-close the unfinished trade": lines 192-205
ForcedClose ==
    /\ engine = "backtest"
    /\ pc = "forced_close"
    /\ pc' = "stats"
    /\ IF position # NoPosition
       THEN LET exit_price == current_bar.close
                pp  == pnl_pct_of(position, exit_price)
                pnl == pnl_forced_close(capital, position, pp)
            IN  /\ capital' = capital + pnl
                /\ trades' = Append(trades,
                       ClosedTrade(position, i, exit_price, "forced_close",
                                   pp, pnl))
       ELSE UNCHANGED <<capital, trades>>
    /\ UNCHANGED <<engine, leverage, i, current_bar, position, equity_curve,
                   consecutive_losses, cooldown_bars, steps, opened, run,
                   result, first_result, df>>
    /\ UNCHANGED <<signal, analysis_vars>>

\* winning_trades = [t for t in self.trades if t.pnl > 0], as positions of log
winning_trades(log) == {k \in 1..Len(log) : log[k].pnl > 0}

\* losing_trades = [t for t in self.trades if t.pnl < 0]
losing_trades(log) == {k \in 1..Len(log) : log[k].pnl < 0}

\* the sentinel float('inf') of a profit factor, as a fraction
Infinity == <<1, 0>>

\* the drawdown taken against the first peak, which later equities never raise
RECURSIVE max_drawdown_first_peak(_, _, _)
max_drawdown_first_peak(equities, peak, max_dd) ==
    IF equities = <<>> THEN max_dd
    ELSE LET equity == Head(equities)
             dd     == Frac(equity - peak, peak)
         IN  max_drawdown_first_peak(Tail(equities), peak,
                                     IF FracLE(dd, max_dd) THEN dd ELSE max_dd)

\* the largest drawdown of a series of equities, a fraction <= 0 of the
\* running peak: peak = max(peak, equity), dd = (equity - peak) / peak,
\* max_dd = min(max_dd, dd); cummax() and min() of _calculate_stats give the
\* same from peak = the first equity
RECURSIVE max_drawdown(_, _, _)
max_drawdown(equities, peak, max_dd) ==
    IF equities = <<>> THEN max_dd
    ELSE LET equity == Head(equities)
             top    == Max(peak, equity)
             dd     == Frac(equity - top, top)
         IN  max_drawdown(Tail(equities), top,
                          IF FracLE(dd, max_dd) THEN dd ELSE max_dd)

\* Backtester._calculate_stats: lines 209-299; profit_factor as a fraction,
\* max_drawdown as a fraction of the peak, both before round(..., 2)
_calculate_stats(final_capital, log, curve) ==
    LET RECURSIVE Total(_)
        Total(S) == IF S = {} THEN 0
                    ELSE LET k == CHOOSE x \in S : TRUE
                         IN  log[k].pnl + Total(S \ {k})
        total_profit == Total(winning_trades(log))
        total_loss   == Abs(Total(losing_trades(log)))
    IN  IF log = <<>>
        THEN [kind |-> "error", final_capital |-> 0, total_trades |-> 0,
              winning_trades |-> 0, losing_trades |-> 0]
        ELSE [kind |-> "stats",
              final_capital  |-> final_capital,
              total_trades   |-> Len(log),
              winning_trades |-> Cardinality(winning_trades(log)),
              losing_trades  |-> Cardinality(losing_trades(log)),
              profit_factor  |-> IF total_loss > 0
                                 THEN Frac(total_profit, total_loss)
                                 ELSE Infinity,
              max_drawdown   |->
                  max_drawdown([k \in 1..Len(curve) |-> curve[k].equity],
                               curve[1].equity, <<0, 1>>)]

\* return self._calculate_stats(capital, equity_curve, df): line 207
CalculateStats ==
    /\ engine = "backtest"
    /\ pc = "stats"
    /\ pc' = "done"
    /\ result' = _calculate_stats(capital, trades, equity_curve)
    /\ UNCHANGED <<engine, leverage, i, current_bar, position, capital,
                   equity_curve, trades, consecutive_losses, cooldown_bars,
                   steps, opened, run, first_result, df>>
    /\ UNCHANGED <<signal, analysis_vars>>

----------------------------------------------------------------------------
(* The leveraged replays: backtest_strategy (src/backtest_all.py),          *)
(* run_backtest (src/compare_strategies.py), backtest (src/backtest_trend.py) *)

\* position_size=0.10, in percent
position_size == 10

\* leverage=20 is the default of backtest_strategy and of run_backtest, which
\* take any leverage; backtest_trend.backtest fixes it at 20
Leverages == {10, 20}

LevBars ==
    {[low |-> 9800, high |-> 10700, close |-> 10600],
     [low |-> 8000, high |-> 10700, close |-> 10000],
     [low |-> 9800, high |-> 16000, close |-> 10600],
     [low |-> 8000, high |-> 16000, close |-> 10000]}

\* signals strategy.analyze(ind, '1h') can return at price p: a long with a
\* near or a far stop, a short with a near or a very far stop, or None
LevSignals(p) ==
    {[signal_type |-> "BUY", strength |-> 60, price |-> p,
      stop_loss |-> p - 400, take_profit |-> p + 800],
     [signal_type |-> "BUY", strength |-> 60, price |-> p,
      stop_loss |-> p - 1500, take_profit |-> p + 800],
     [signal_type |-> "SELL", strength |-> 60, price |-> p,
      stop_loss |-> p + 500, take_profit |-> p - 800],
     [signal_type |-> "SELL", strength |-> 60, price |-> p,
      stop_loss |-> p + 6000, take_profit |-> p - 800],
     NoSignal}

\* is the loss of the sized slice capped: backtest_all.py lines 67-68,
\* backtest_trend.py lines 82-83, optimize_trend_fast.py lines 197-198;
\* compare_strategies.py has no such lines
has_liquidation_cap(eng) ==
    eng \in {"backtest_all", "backtest_trend", "run_backtest_fast"}

\* the pnl without the cap at the sized slice
pnl_leveraged_uncapped(eng, cap, lev, pp) ==
    Scale(cap, pp[1] * lev * position_size, pp[2] * 100)

\* pnl of a stop / take-profit close: backtest_all.py lines 64-68
pnl_leveraged(eng, cap, lev, pp) ==
    IF has_liquidation_cap(eng) /\ pp[1] * lev <= -pp[2]
    THEN -Scale(cap, position_size, 100)
    ELSE Scale(cap, pp[1] * lev * position_size, pp[2] * 100)

\* "check close": backtest_all.py lines 38-82
CheckExitLev ==
    /\ engine \in Leveraged
    /\ pc = "check_exit"
    /\ steps' = Append(steps, "check_exit")
    /\ IF position # NoPosition
          /\ check_exit(position, current_bar).exit_reason # "none"
       THEN LET x   == check_exit(position, current_bar)
                pp  == pnl_pct_of(position, x.exit_price)
                pnl == pnl_leveraged(engine, capital, leverage, pp)
            IN  /\ capital' = capital + pnl
                /\ trades' = Append(trades,
                       ClosedTrade(position, i, x.exit_price, x.exit_reason,
                                   pp, pnl))
                /\ position' = NoPosition
                \* if capital <= 0: break
                /\ pc' = IF capital + pnl <= 0 THEN AfterLoop(engine)
                         ELSE StepAfter(engine, "check_exit")
       ELSE /\ pc' = StepAfter(engine, "check_exit")
            /\ UNCHANGED <<capital, trades, position>>
    /\ UNCHANGED <<engine, leverage, i, current_bar, equity_curve,
                   consecutive_losses, cooldown_bars, opened, run, result,
                   first_result, df>>
    /\ UNCHANGED <<signal, analysis_vars>>

\* the gate without the test of the position slot
entry_gate_lev_any(pos, cap) == cap > 0

\* may the entry step ask the strategy for a signal: backtest_all.py line 85
entry_gate_lev(pos, cap) == pos = NoPosition /\ cap > 0

\* "open": backtest_all.py lines 84-95, on the signal of this bar
EntryLev(returned) ==
    /\ engine \in Leveraged
    /\ pc = "check_entry"
    /\ pc' = StepAfter(engine, "check_entry")
    /\ steps' = Append(steps, "check_entry")
    /\ IF entry_gate_lev(position, capital)
       THEN /\ signal' = returned
            /\ \E reading \in datetime_now :
                   signal_timestamp' =
                       IF returned = NoSignal THEN NoTime ELSE reading
            /\ IF returned # NoSignal /\ returned.signal_type # "NEUTRAL"
               THEN /\ position' =
                          [signal_type   |-> returned.signal_type,
                           entry_time    |-> i,
                           entry_price   |-> current_bar.close,
                           stop_loss     |-> returned.stop_loss,
                           take_profit   |-> returned.take_profit,
                           position_size |-> position_size]
                    /\ opened' = opened + 1
               ELSE UNCHANGED <<position, opened>>
       ELSE UNCHANGED <<signal, position, opened, signal_timestamp>>
    /\ UNCHANGED <<engine, leverage, i, current_bar, capital, equity_curve,
                   trades, consecutive_losses, cooldown_bars, run, result,
                   first_result, df, strategy, snapshot, scores, results,
                   live_vars>>

\* "forced close": backtest_trend.py lines 117-139
ForcedCloseTrend ==
    /\ engine = "backtest_trend"
    /\ pc = "forced_close"
    /\ pc' = "stats"
    /\ IF position # NoPosition /\ capital > 0
       THEN LET exit_price == current_bar.close
                pp  == pnl_pct_of(position, exit_price)
                pnl == Scale(capital, pp[1] * leverage * position_size,
                             pp[2] * 100)
            IN  /\ capital' = capital + pnl
                /\ trades' = Append(trades,
                       ClosedTrade(position, i, exit_price, "forced_close",
                                   pp, pnl))
       ELSE UNCHANGED <<capital, trades>>
    /\ UNCHANGED <<engine, leverage, i, current_bar, position, equity_curve,
                   consecutive_losses, cooldown_bars, steps, opened, run,
                   result, first_result, df>>
    /\ UNCHANGED <<signal, analysis_vars>>

\* profit_factor of the leveraged replays: abs(sum of the winning pnl_pct /
\* sum of the others) if there are others and their sum is not 0, else
\* float('inf') (backtest_all.py line 108, backtest_trend.py line 160), 999
\* (compare_strategies.py line 92, which returns min(profit_factor, 99)) or
\* 0 (optimize_trend_fast.py line 243); the factor leverage * position_size
\* * 100 of every pnl_pct cancels
profit_factor(eng, log) ==
    LET RECURSIVE Total(_)
        Total(seq) == IF seq = <<>> THEN <<0, 1>>
                      ELSE FracAdd(Head(seq).pnl_pct, Total(Tail(seq)))
        wins   == Total(SelectSeq(log, LAMBDA t : t.pnl_pct[1] > 0))
        losses == Total(SelectSeq(log, LAMBDA t : t.pnl_pct[1] <= 0))
        ratio  == Frac(wins[1] * losses[2], wins[2] * Abs(losses[1]))
    IN  IF eng = "compare_strategies"
        THEN IF losses[1] = 0 \/ ~FracLE(ratio, <<99, 1>>) THEN <<99, 1>>
             ELSE ratio
        ELSE IF losses[1] # 0 THEN ratio
        ELSE IF eng = "run_backtest_fast" THEN <<0, 1>>
        ELSE Infinity

\* "statistics": backtest_all.py lines 97-137 (None when there are no trades)
stats_leveraged(eng, final_capital, log) ==
    LET wins == {k \in 1..Len(log) : log[k].pnl_pct[1] > 0}
        RECURSIVE Equity(_)
        Equity(k) == IF k = 0 THEN initial_capital
                     ELSE Equity(k - 1) + log[k].pnl
    IN  IF log = <<>>
        THEN [kind |-> "None", final_capital |-> 0, total_trades |-> 0,
              winning_trades |-> 0, losing_trades |-> 0]
        ELSE [kind |-> "stats",
              final_capital  |-> final_capital,
              total_trades   |-> Len(log),
              winning_trades |-> Cardinality(wins),
              losing_trades  |-> Len(log) - Cardinality(wins),
              profit_factor  |-> profit_factor(eng, log),
              max_drawdown   |->
                  max_drawdown([k \in 1..Len(log) |-> Equity(k)],
                               initial_capital, <<0, 1>>)]

StatsLev ==
    /\ engine \in Leveraged \ {"run_backtest_fast"}
    /\ pc = "stats"
    /\ pc' = "done"
    /\ result' = stats_leveraged(engine, capital, trades)
    /\ UNCHANGED <<engine, leverage, i, current_bar, position, capital,
                   equity_curve, trades, consecutive_losses, cooldown_bars,
                   steps, opened, run, first_result, df>>
    /\ UNCHANGED <<signal, analysis_vars>>

----------------------------------------------------------------------------
(* run_backtest_fast (src/optimize_trend_fast.py): the replay on a frame  *)
(* whose rows carry the precomputed indicator columns.  A row is a record *)
(* of its columns; a column that is NaN is left out of the record.        *)

\* the params.get defaults; the multipliers are in tenths
default_params ==
    [adx_threshold |-> 20, entry_threshold |-> 40, sl_mult |-> 10,
     tp_mult |-> 15, rsi_pullback_low |-> 35, rsi_pullback_high |-> 50]

get_trend(row, price, adx_threshold) ==
    IF "adx" \notin DOMAIN row \/ row["adx"] < adx_threshold THEN "neutral"
    ELSE LET up_count == (IF price > row["ma_20"] THEN 1 ELSE 0)
                       + (IF price > row["ma_50"] THEN 1 ELSE 0)
                       + (IF row["ema_9"] > row["ema_21"] THEN 1 ELSE 0)
                       + (IF row["ma_20"] > row["ma_50"] THEN 1 ELSE 0)
             down_count == 4 - up_count
         IN  IF up_count >= 3 THEN "up"
             ELSE IF down_count >= 3 THEN "down"
             ELSE "neutral"

check_entry(row, price, trend, params) ==
    LET rsi      == row["rsi"]
        bb_pband == row["bb_pband"]               \* hundredths
        k        == row["stoch_k"]
        ema21    == row["ema_21"]
        rsi_low  == params.rsi_pullback_low
        rsi_high == params.rsi_pullback_high
        near     == Abs(price - ema21) * 100 < ema21
    IN  IF trend = "up"
        THEN (IF rsi_low <= rsi /\ rsi <= rsi_high THEN 30 ELSE 0)
           + (IF 30 <= bb_pband /\ bb_pband <= 60 THEN 25 ELSE 0)
           + (IF near THEN 25 ELSE 0)
           + (IF 30 <= k /\ k <= 50 THEN 20 ELSE 0)
        ELSE - (IF 100 - rsi_high <= rsi /\ rsi <= 100 - rsi_low THEN 30 ELSE 0)
             - (IF 40 <= bb_pband /\ bb_pband <= 70 THEN 25 ELSE 0)
             - (IF near THEN 25 ELSE 0)
             - (IF 50 <= k /\ k <= 70 THEN 20 ELSE 0)

check_momentum(row, trend) ==
    IF trend = "up"
    THEN row["macd_hist"] > 0 \/ row["di_plus"] > row["di_minus"]
    ELSE row["macd_hist"] < 0 \/ row["di_minus"] > row["di_plus"]

\* pd.isna(atr) or atr / price * 100 > 4 or atr / price * 100 < 0.2
atr_unusable(row, price) ==
    \/ "atr" \notin DOMAIN row
    \/ row["atr"] * 100 > 4 * price
    \/ row["atr"] * 1000 < 2 * price

\* the position the entry branch builds on a row, as the signal it amounts
\* to, or NoSignal when one of its tests fails: lines 207-233
fast_signal(row, price, params) ==
    LET trend == get_trend(row, price, params.adx_threshold)
        score == check_entry(row, price, trend, params)
        atr   == row["atr"]
    IN  IF trend = "neutral" THEN NoSignal
        ELSE IF Abs(score) < params.entry_threshold THEN NoSignal
        ELSE IF ~check_momentum(row, trend) THEN NoSignal
        ELSE IF score > 0
        THEN [signal_type |-> "BUY", strength |-> Min(100, Abs(score)),
              price       |-> price,
              stop_loss   |-> price - (atr * params.sl_mult) \div 10,
              take_profit |-> price + (atr * params.tp_mult) \div 10]
        ELSE [signal_type |-> "SELL", strength |-> Min(100, Abs(score)),
              price       |-> price,
              stop_loss   |-> price + (atr * params.sl_mult) \div 10,
              take_profit |-> price - (atr * params.tp_mult) \div 10]

\* for i in range(50, len(df)): row = df.iloc[i], and the test of the ATR
\* that continues with the next row: lines 160-166
LoopHeadFast(bar, row, nbars) ==
    /\ engine = "run_backtest_fast"
    /\ pc = "loop"
    /\ i + 1 < FirstBar + nbars
    /\ i' = i + 1
    /\ current_bar' = bar
    /\ snapshot' = row
    /\ steps' = <<>>
    /\ pc' = IF atr_unusable(row, bar.close) THEN "loop" ELSE "check_exit"
    /\ UNCHANGED <<engine, leverage, position, capital, equity_curve, trades,
                   consecutive_losses, cooldown_bars, opened, run, result,
                   first_result, df, signal, strategy, scores, results,
                   signal_timestamp, live_vars>>

\* "open": lines 207-233
EntryFast ==
    /\ engine = "run_backtest_fast"
    /\ EntryLev(fast_signal(snapshot, current_bar.close, default_params))

\* lines 235-236 and the statistics after them
stats_fast(final_capital, log) ==
    IF Len(log) < 5
    THEN [kind |-> "None", final_capital |-> 0, total_trades |-> 0,
          winning_trades |-> 0, losing_trades |-> 0]
    ELSE stats_leveraged("run_backtest_fast", final_capital, log)

StatsFast ==
    /\ engine = "run_backtest_fast"
    /\ pc = "stats"
    /\ pc' = "done"
    /\ result' = stats_fast(capital, trades)
    /\ UNCHANGED <<engine, leverage, i, current_bar, position, capital,
                   equity_curve, trades, consecutive_losses, cooldown_bars,
                   steps, opened, run, first_result, df>>
    /\ UNCHANGED <<signal, analysis_vars>>

----------------------------------------------------------------------------
(* Specification: one run of any of the replays on bars chosen as it goes *)

\* Backtester.__init__ and the locals set at the top of the run
Init ==
    /\ engine \in Engines
    /\ leverage \in (CASE engine = "backtest"       -> {1}
                       [] engine = "backtest_trend" -> {20}
                       [] OTHER                     -> Leverages)
    /\ pc = "loop"
    /\ i = FirstBar - 1
    /\ current_bar = NoBar
    /\ position = NoPosition
    /\ capital = initial_capital
    /\ equity_curve = <<>>
    /\ trades = <<>>
    /\ consecutive_losses = 0
    /\ cooldown_bars = 0
    /\ steps = <<>>
    /\ opened = 0
    /\ run = 1
    /\ result = NoResult
    /\ first_result = NoResult
    /\ df = <<>>
    /\ signal = NoSignal
    /\ strategy = "TradingStrategy"
    /\ snapshot = NoSnapshot
    /\ scores = NoScores
    /\ results = <<>>
    /\ signal_timestamp = NoTime
    /\ LiveStart

NextBar ==
    \E bar \in (IF engine = "backtest" THEN Bars ELSE LevBars) :
        LoopHead(bar, MaxBars)

LoopEnd == LoopExit(FirstBar)

CheckEntry == \E ind \in Snapshots(current_bar.close) : Entry(ind)

CheckEntryLev ==
    \E returned \in LevSignals(current_bar.close) : EntryLev(returned)

Next ==
    \/ NextBar
    \/ LoopEnd
    \/ CheckExit
    \/ CooldownTick
    \/ CheckEntry
    \/ RecordEquity
    \/ ForcedClose
    \/ CalculateStats
    \/ CheckExitLev
    \/ CheckEntryLev
    \/ ForcedCloseTrend
    \/ StatsLev

Spec == Init /\ [][Next]_vars

----------------------------------------------------------------------------
(* Specification: one long run of Backtester in a market that only offers *)
(* longs, for the behaviour of the loss counter and the cooldown          *)

\* largest number of bars of the long run
MaxLongBars == 9

\* a bar spiking down and a bar spiking up, both closing at 10000
LongBars ==
    {[low |-> 8000, high |-> 10600, close |-> 10000],
     [low |-> 9800, high |-> 12000, close |-> 10000]}

\* an up-trend, or nothing but the price
LongSnapshots(p) == {[price |-> p, atr |-> 500] @@ UpTrend(p), [price |-> p]}

InitLong == Init /\ engine = "backtest"

NextBarLong == \E bar \in LongBars : LoopHead(bar, MaxLongBars)

CheckEntryLong == \E ind \in LongSnapshots(current_bar.close) : Entry(ind)

NextLong ==
    \/ NextBarLong
    \/ LoopEnd
    \/ CheckExit
    \/ CooldownTick
    \/ CheckEntryLong
    \/ RecordEquity
    \/ ForcedClose
    \/ CalculateStats

SpecLong == InitLong /\ [][NextLong]_vars

----------------------------------------------------------------------------
(* Specification: run_backtest called twice on the same bars, the second  *)
(* time on the same Backtester or on a newly constructed one              *)

\* largest number of bars of a repeated run
MaxRerunBars == 2

RerunRows ==
    {[bar |-> b, ind |-> s] :
        b \in {[low |-> 9800, high |-> 10600, close |-> 10000],
               [low |-> 8000, high |-> 10600, close |-> 10000],
               [low |-> 9800, high |-> 12000, close |-> 10500]},
        s \in {"up", "none"}}

\* the snapshot calculate_all returns on a row
RowSnapshot(row) ==
    IF row.ind = "up"
    THEN [price |-> row.bar.close, atr |-> 500] @@ UpTrend(row.bar.close)
    ELSE [price |-> row.bar.close]

DataFrames ==
    UNION {[1..n -> RerunRows] : n \in 1..MaxRerunBars}

InitRerun ==
    /\ engine = "backtest"
    /\ leverage = 1
    /\ pc = "loop"
    /\ i = FirstBar - 1
    /\ current_bar = NoBar
    /\ position = NoPosition
    /\ capital = initial_capital
    /\ equity_curve = <<>>
    /\ trades = <<>>
    /\ consecutive_losses = 0
    /\ cooldown_bars = 0
    /\ steps = <<>>
    /\ opened = 0
    /\ run = 1
    /\ result = NoResult
    /\ first_result = NoResult
    /\ df \in DataFrames
    /\ signal = NoSignal
    /\ strategy = "TradingStrategy"
    /\ snapshot = NoSnapshot
    /\ scores = NoScores
    /\ results = <<>>
    /\ signal_timestamp = NoTime
    /\ LiveStart

\* the row of df at the bar of index k
Row(k) == df[k - FirstBar + 1]

NextBarDf ==
    /\ i + 1 < FirstBar + Len(df)
    /\ LoopHead(Row(i + 1).bar, Len(df))

LoopEndDf == LoopExit(FirstBar + Len(df) - 1)

CheckEntryDf == Entry(RowSnapshot(Row(i)))

\* a second call of run_backtest(df) on the same object: lines 65-75 run
\* again, the fields set by __init__ (lines 47-50) keep their values
Rerun ==
    /\ pc = "done"
    /\ run = 1
    /\ run' = 2
    /\ first_result' = result
    /\ result' = NoResult
    /\ pc' = "loop"
    /\ i' = FirstBar - 1
    /\ current_bar' = NoBar
    /\ steps' = <<>>
    /\ position' = NoPosition
    /\ capital' = initial_capital
    /\ equity_curve' = <<>>
    /\ UNCHANGED <<engine, leverage, trades, consecutive_losses,
                   cooldown_bars, opened, df>>
    /\ UNCHANGED <<signal, analysis_vars>>

\* the second call on a new Backtester: __init__ (lines 41-50) runs as well
RerunFresh ==
    /\ pc = "done"
    /\ run = 1
    /\ run' = 2
    /\ first_result' = result
    /\ result' = NoResult
    /\ pc' = "loop"
    /\ i' = FirstBar - 1
    /\ current_bar' = NoBar
    /\ steps' = <<>>
    /\ position' = NoPosition
    /\ capital' = initial_capital
    /\ equity_curve' = <<>>
    /\ trades' = <<>>
    /\ consecutive_losses' = 0
    /\ cooldown_bars' = 0
    /\ opened' = 0
    /\ UNCHANGED <<engine, leverage, df>>
    /\ UNCHANGED <<signal, analysis_vars>>

NextRerun ==
    \/ NextBarDf
    \/ LoopEndDf
    \/ CheckExit
    \/ CooldownTick
    \/ CheckEntryDf
    \/ RecordEquity
    \/ ForcedClose
    \/ CalculateStats
    \/ Rerun
    \/ RerunFresh

SpecRerun == InitRerun /\ [][NextRerun]_vars

----------------------------------------------------------------------------
(* Specification: one call of analyze of one of the five strategy classes *)
(* on one indicator snapshot                                              *)

Strategies ==
    {"TradingStrategy", "TrendStrategy", "ComboStrategy", "OvernightStrategy",
     "BreakoutStrategy"}

\* oscillator and average values around price p: a pullback in an up-trend
\* and in a down-trend, an oversold and an overbought quiet market, a close
\* above the upper and below the lower Bollinger band on high volume, and
\* the two trends of the replays, the first also at a middling ADX
Shapes(p) ==
    LET BullPullback ==
            [adx |-> 35, bb_width |-> 50, rsi |-> 40, bb_pband |-> 40,
             stoch_k |-> 35, stoch_d |-> 30, ema_9 |-> p + 20,
             ema_21 |-> p - 50, ma_20 |-> p - 100, ma_50 |-> p - 200,
             ma_200 |-> p - 300, macd_hist |-> 5, macd |-> 10,
             macd_signal |-> 5, di_plus |-> 30, di_minus |-> 10,
             volume_ratio |-> 20, obv_change |-> 1]
        BearPullback ==
            [adx |-> 35, bb_width |-> 50, rsi |-> 60, bb_pband |-> 60,
             stoch_k |-> 65, stoch_d |-> 70, ema_9 |-> p - 20,
             ema_21 |-> p + 50, ma_20 |-> p + 100, ma_50 |-> p + 200,
             ma_200 |-> p + 300, macd_hist |-> -5, macd |-> -10,
             macd_signal |-> -5, di_plus |-> 10, di_minus |-> 30,
             volume_ratio |-> 20, obv_change |-> 0]
        Oversold ==
            [adx |-> 15, bb_width |-> 15, rsi |-> 20, bb_pband |-> -5,
             stoch_k |-> 10, stoch_d |-> 8, macd_hist |-> 5, macd |-> 1,
             macd_signal |-> 0, volume_ratio |-> 20, obv_change |-> 1]
        Overbought ==
            [adx |-> 15, bb_width |-> 15, rsi |-> 80, bb_pband |-> 105,
             stoch_k |-> 90, stoch_d |-> 92, macd_hist |-> -5, macd |-> -1,
             macd_signal |-> 0, volume_ratio |-> 20, obv_change |-> 0]
        BreakUp ==
            [adx |-> 30, bb_width |-> 50, rsi |-> 70, bb_pband |-> 105,
             macd_hist |-> 5, volume_ratio |-> 20, obv_change |-> 1]
        BreakDown ==
            [adx |-> 30, bb_width |-> 50, rsi |-> 30, bb_pband |-> -5,
             macd_hist |-> -5, volume_ratio |-> 20, obv_change |-> 0]
        \* an up-trend at an ADX between the ranging and the trending class
        MixedUp == [adx |-> 28] @@ UpTrend(p)
        \* a pullback in an up-trend whose MACD histogram has turned down
        FadingPullback == [macd_hist |-> -5] @@ BullPullback
    IN  {BullPullback, BearPullback, Oversold, Overbought, BreakUp, BreakDown,
         UpTrend(p), DownTrend(p), MixedUp, FadingPullback}

\* the snapshots handed to analyze: the empty dict, dicts without a price,
\* a dict holding only the price, and full snapshots at two prices
AnalyzeSnapshots ==
    LET \* a record without the placeholder field of a missing part
        Strip(rec) == [k \in DOMAIN rec \ {"none"} |-> rec[k]]
        \* the ATR in cents: missing, or from 0.2 % to 6 % of 100 dollars
        AtrValues == {[none |-> 0], [atr |-> 20], [atr |-> 100],
                      [atr |-> 250], [atr |-> 400], [atr |-> 600]}
        \* the pivot levels: either may be missing; calculate_all computes
        \* s1 = 2 * pivot - high and r1 = 2 * pivot - low, so s1 <= r1
        Field(key, v) == IF v = 0 THEN [none |-> 0]
                         ELSE IF key = "s1" THEN [s1 |-> v] ELSE [r1 |-> v]
        PivotLevels(p) ==
            {Field("s1", sr[1]) @@ Field("r1", sr[2]) :
                sr \in {x \in {0, p - 300, p - 30, p + 20}
                               \X {0, p - 20, p + 30, p + 300} :
                           x[1] = 0 \/ x[2] = 0 \/ x[1] <= x[2]}}
        \* the Bollinger bands: missing, wide around the price from either
        \* side, or narrow
        BollingerBands(p) ==
            {[none |-> 0],
             [bb_lower |-> p - 150, bb_middle |-> p + 60, bb_upper |-> p + 270],
             [bb_lower |-> p - 270, bb_middle |-> p - 60, bb_upper |-> p + 150],
             [bb_lower |-> p - 40, bb_middle |-> p + 10, bb_upper |-> p + 60]}
        Full(p) ==
            {Strip([price |-> p] @@ x[1] @@ x[2] @@ x[3] @@ x[4]) :
                x \in AtrValues \X PivotLevels(p) \X BollingerBands(p)
                      \X Shapes(p)}
    IN  {Strip([none |-> 0]), [rsi |-> 25], [atr |-> 100, rsi |-> 75],
         [price |-> 10000], [price |-> 12345]}
        \cup Full(10000) \cup Full(12345)

InitStrategy ==
    /\ engine = "none"
    /\ leverage = 1
    /\ pc = "analyze"
    /\ i = FirstBar - 1
    /\ current_bar = NoBar
    /\ position = NoPosition
    /\ capital = initial_capital
    /\ equity_curve = <<>>
    /\ trades = <<>>
    /\ consecutive_losses = 0
    /\ cooldown_bars = 0
    /\ steps = <<>>
    /\ opened = 0
    /\ run = 1
    /\ result = NoResult
    /\ first_result = NoResult
    /\ df = <<>>
    /\ signal = NoSignal
    /\ strategy \in Strategies
    /\ snapshot \in AnalyzeSnapshots
    /\ scores = NoScores
    /\ results = <<>>
    /\ signal_timestamp = NoTime
    /\ LiveStart

\* strategy.analyze(indicators, timeframe) returns
Analyze(returned, computed) ==
    /\ pc = "analyze"
    /\ signal' = returned
    /\ scores' = computed
    /\ pc' = "returned"
    /\ UNCHANGED <<engine, leverage, i, current_bar, position, capital,
                   equity_curve, trades, consecutive_losses, cooldown_bars,
                   steps, opened, run, result, first_result, df, strategy,
                   snapshot, results, live_vars>>
    /\ \E reading \in datetime_now :
           signal_timestamp' = IF returned = NoSignal THEN NoTime ELSE reading

\* the test of the returned value that guards the entry, without "if signal"
opens_position_untested(returned) == returned.signal_type # "NEUTRAL"

\* if signal and signal.signal_type != SignalType.NEUTRAL
opens_position(returned) ==
    returned # NoSignal /\ returned.signal_type # "NEUTRAL"

\* the entry step of the replay that called analyze, on the value it returned:
\* Backtester.run_backtest sizes the position of TradingStrategy by strength,
\* backtest_strategy gives the other classes the fixed position_size
EntryOnReturned ==
    /\ pc = "returned"
    /\ pc' = "entered"
    /\ IF opens_position(signal)
       THEN /\ position' =
                  [signal_type   |-> signal.signal_type,
                   entry_time    |-> i,
                   entry_price   |-> signal.price,
                   stop_loss     |-> signal.stop_loss,
                   take_profit   |-> signal.take_profit,
                   position_size |->
                       IF strategy = "TradingStrategy"
                       THEN base_size(signal.strength, consecutive_losses)
                       ELSE position_size]
            /\ opened' = opened + 1
       ELSE UNCHANGED <<position, opened>>
    /\ UNCHANGED <<engine, leverage, i, current_bar, capital, equity_curve,
                   trades, consecutive_losses, cooldown_bars, steps, run,
                   result, first_result, df, signal>>
    /\ UNCHANGED analysis_vars

AnalyzeTradingStrategy ==
    /\ strategy = "TradingStrategy"
    /\ Analyze(analyze(snapshot), TradingStrategy_scores(snapshot))

AnalyzeTrendStrategy ==
    /\ strategy = "TrendStrategy"
    /\ Analyze(TrendStrategy_analyze(snapshot), TrendStrategy_scores(snapshot))

AnalyzeComboStrategy ==
    /\ strategy = "ComboStrategy"
    /\ Analyze(ComboStrategy_analyze(snapshot), ComboStrategy_scores(snapshot))

AnalyzeOvernightStrategy ==
    /\ strategy = "OvernightStrategy"
    /\ Analyze(OvernightStrategy_analyze(snapshot),
               OvernightStrategy_scores(snapshot))

AnalyzeBreakoutStrategy ==
    /\ strategy = "BreakoutStrategy"
    /\ Analyze(BreakoutStrategy_analyze(snapshot),
               BreakoutStrategy_scores(snapshot))

NextStrategy ==
    \/ AnalyzeTradingStrategy
    \/ AnalyzeTrendStrategy
    \/ AnalyzeComboStrategy
    \/ AnalyzeOvernightStrategy
    \/ AnalyzeBreakoutStrategy
    \/ EntryOnReturned

SpecStrategy == InitStrategy /\ [][NextStrategy]_vars

----------------------------------------------------------------------------
(* Specification: the long run of Backtester next to the short runs of    *)
(* the leveraged replays, for the gates of the entry step                 *)

NextBarGate ==
    IF engine = "backtest"
    THEN \E bar \in LongBars : LoopHead(bar, MaxLongBars)
    ELSE \E bar \in LevBars : LoopHead(bar, MaxBars)

NextGate ==
    \/ NextBarGate
    \/ LoopEnd
    \/ CheckExit
    \/ CooldownTick
    \/ CheckEntryLong
    \/ RecordEquity
    \/ ForcedClose
    \/ CalculateStats
    \/ CheckExitLev
    \/ CheckEntryLev
    \/ ForcedCloseTrend
    \/ StatsLev

SpecGate == Init /\ [][NextGate]_vars

----------------------------------------------------------------------------
(* Specification: one run of run_backtest_fast with its default arguments *)

\* largest number of rows replayed in one run of run_backtest_fast
MaxFastBars == 3

\* the indicator columns of a row closing at p: a pullback in an up-trend
\* and in a down-trend at an ATR of 1 % of 100 dollars, the same up-trend
\* at an ATR above 4 % and below 0.2 % of the price and with the ATR NaN,
\* and a row without a trend
FastRows(p) ==
    LET Up == [adx |-> 35, rsi |-> 40, bb_pband |-> 40, stoch_k |-> 35,
               ema_9 |-> p + 20, ema_21 |-> p - 50, ma_20 |-> p - 100,
               ma_50 |-> p - 200, macd_hist |-> 5, di_plus |-> 30,
               di_minus |-> 10]
        Down == [adx |-> 35, rsi |-> 60, bb_pband |-> 60, stoch_k |-> 65,
                 ema_9 |-> p - 20, ema_21 |-> p + 50, ma_20 |-> p + 100,
                 ma_50 |-> p + 200, macd_hist |-> -5, di_plus |-> 10,
                 di_minus |-> 30]
    IN  {[atr |-> 100] @@ Up, [atr |-> 100] @@ Down, [atr |-> 500] @@ Up,
         [atr |-> 10] @@ Up, Up, [atr |-> 100, adx |-> 10] @@ Up}

InitFast ==
    /\ engine = "run_backtest_fast"
    /\ leverage \in Leverages
    /\ pc = "loop"
    /\ i = FirstBar - 1
    /\ current_bar = NoBar
    /\ position = NoPosition
    /\ capital = initial_capital
    /\ equity_curve = <<>>
    /\ trades = <<>>
    /\ consecutive_losses = 0
    /\ cooldown_bars = 0
    /\ steps = <<>>
    /\ opened = 0
    /\ run = 1
    /\ result = NoResult
    /\ first_result = NoResult
    /\ df = <<>>
    /\ signal = NoSignal
    /\ strategy = "none"
    /\ snapshot = NoSnapshot
    /\ scores = NoScores
    /\ results = <<>>
    /\ signal_timestamp = NoTime
    /\ LiveStart

NextBarFast ==
    \E bar \in LevBars : \E row \in FastRows(bar.close) :
        LoopHeadFast(bar, row, MaxFastBars)

NextFast ==
    \/ NextBarFast
    \/ LoopEnd
    \/ CheckExitLev
    \/ EntryFast
    \/ StatsFast

SpecFast == InitFast /\ [][NextFast]_vars

----------------------------------------------------------------------------
(* backtest_params (src/optimize_meanrev.py) and a specification of the two *)
(* parameter searches: a market of winning and losing bars for              *)
(* run_backtest_fast, and the mean-reversion replay                         *)

\* largest number of rows the parameter searches replay
MaxOptimizeBars == 6

\* the score of row i: lines 47-72, bb_pband in hundredths
backtest_params_score(row, params) ==
    (IF row.rsi < params.rsi_oversold THEN 45
     ELSE IF row.rsi < params.rsi_oversold + 10 THEN 30
     ELSE IF row.rsi > params.rsi_overbought THEN -45
     ELSE IF row.rsi > params.rsi_overbought - 10 THEN -30
     ELSE 0)
  + (IF row.bb_pband < 0 THEN 40
     ELSE IF row.bb_pband < 15 THEN 25
     ELSE IF row.bb_pband > 100 THEN -40
     ELSE IF row.bb_pband > 85 THEN -25
     ELSE 0)
  + (IF row.stoch_k < 20 THEN 30
     ELSE IF row.stoch_k > 80 THEN -30
     ELSE 0)

\* one pass of `while i < len(df) - 48` on a frame of nrows rows: the score
\* of row i, and above the threshold the trade that leaves at exit_price,
\* the level the scan of the next 47 bars stopped at or the close it ran
\* out on; leverage 20 on a tenth of the capital doubles the move
ParamsIteration(row, params, exit_price, nrows) ==
    LET score       == backtest_params_score(row, params)
        entry_price == row.close
        sl_dist     == RoundDiv(row.atr * params.sl_mult, 10)
        tp_dist     == RoundDiv(row.atr * params.tp_mult, 10)
        stop_loss   == IF score > 0 THEN entry_price - sl_dist
                       ELSE entry_price + sl_dist
        take_profit == IF score > 0 THEN entry_price + tp_dist
                       ELSE entry_price - tp_dist
        inside      == IF score > 0
                       THEN stop_loss < exit_price /\ exit_price < take_profit
                       ELSE take_profit < exit_price /\ exit_price < stop_loss
        trade_return == IF score > 0
                        THEN Frac(2 * (exit_price - entry_price), entry_price)
                        ELSE Frac(2 * (entry_price - exit_price), entry_price)
        after       == capital + Scale(capital, trade_return[1], trade_return[2])
    IN  /\ engine = "backtest_params"
        /\ pc = "loop"
        /\ i < nrows - 48
        /\ IF Abs(score) < params.signal_threshold
           THEN /\ i' = i + 1
                /\ UNCHANGED <<capital, trades>>
           ELSE /\ exit_price \in {stop_loss, take_profit} \/ inside
                /\ capital' = after
                /\ trades' = Append(trades, [trade_return |-> trade_return,
                                             capital      |-> after])
                /\ i' = i + 10
        /\ UNCHANGED <<engine, leverage, pc, current_bar, position,
                       equity_curve, consecutive_losses, cooldown_bars, steps,
                       opened, run, result, first_result, df>>
        /\ UNCHANGED <<signal, analysis_vars>>

\* the dict backtest_params returns: lines 130-149; total_return and
\* win_rate as fractions of one, max_drawdown as the largest fall below the
\* running peak of the capital
backtest_params_result(log, final_capital) ==
    LET wins   == SelectSeq(log, LAMBDA t : t.trade_return[1] > 0)
        losses == SelectSeq(log, LAMBDA t : t.trade_return[1] <= 0)
        RECURSIVE Total(_)
        Total(seq) == IF seq = <<>> THEN <<0, 1>>
                      ELSE FracAdd(Head(seq).trade_return, Total(Tail(seq)))
        total_wins   == Total(wins)
        total_losses == IF losses = <<>> THEN <<1, 1000>>
                        ELSE <<Abs(Total(losses)[1]), Total(losses)[2]>>
        peak_capital(k) ==
            Max(initial_capital, SetMax({log[j].capital : j \in 1..k}))
        drawdown(k) == Frac(peak_capital(k) - log[k].capital, peak_capital(k))
        worst == CHOOSE k \in 1..Len(log) :
                     \A j \in 1..Len(log) : FracLE(drawdown(j), drawdown(k))
    IN  IF log = <<>>
        THEN [total_return |-> <<0, 1>>, win_rate |-> <<0, 1>>, trades |-> 0,
              profit_factor |-> <<0, 1>>, max_drawdown |-> <<0, 1>>]
        ELSE [total_return  |-> Frac(final_capital - initial_capital,
                                     initial_capital),
              win_rate      |-> Frac(Len(wins), Len(log)),
              trades        |-> Len(log),
              \* a division by a zero sum of losses gives inf or nan
              profit_factor |->
                  IF total_losses[1] = 0
                  THEN <<IF total_wins[1] > 0 THEN 1 ELSE 0, 0>>
                  ELSE Frac(total_wins[1] * total_losses[2],
                            total_wins[2] * total_losses[1]),
              max_drawdown  |-> drawdown(worst)]

\* the loop ends and the dict is returned
ParamsReturn(nrows) ==
    /\ engine = "backtest_params"
    /\ pc = "loop"
    /\ i >= nrows - 48
    /\ pc' = "done"
    /\ result' = backtest_params_result(trades, capital)
    /\ UNCHANGED <<engine, leverage, i, current_bar, position, capital,
                   equity_curve, trades, consecutive_losses, cooldown_bars,
                   steps, opened, run, first_result, df>>
    /\ UNCHANGED <<signal, analysis_vars>>

InitOptimize ==
    /\ engine \in {"run_backtest_fast", "backtest_params"}
    /\ leverage = 20
    /\ pc = "loop"
    /\ i = IF engine = "backtest_params" THEN FirstBar ELSE FirstBar - 1
    /\ current_bar = NoBar
    /\ position = NoPosition
    /\ capital = initial_capital
    /\ equity_curve = <<>>
    /\ trades = <<>>
    /\ consecutive_losses = 0
    /\ cooldown_bars = 0
    /\ steps = <<>>
    /\ opened = 0
    /\ run = 1
    /\ result = NoResult
    /\ first_result = NoResult
    /\ df = <<>>
    /\ signal = NoSignal
    /\ strategy = "none"
    /\ snapshot = NoSnapshot
    /\ scores = NoScores
    /\ results = <<>>
    /\ signal_timestamp = NoTime
    /\ LiveStart

\* rows closing at 106 dollars under an ATR of 1 dollar, in an up-trend or a
\* down-trend, on a bar that reaches the target of a long and the stop of a
\* short, or the reverse
NextBarOptimize ==
    \E bar \in {[low |-> 10550, high |-> 10800, close |-> 10600],
                [low |-> 10400, high |-> 10650, close |-> 10600]} :
        \E row \in {r \in FastRows(bar.close) :
                        "atr" \in DOMAIN r /\ r["atr"] = 100 /\ r["adx"] = 35} :
            LoopHeadFast(bar, row, MaxOptimizeBars)

\* rows of the mean-reversion frame (oversold, overbought, directionless)
\* under the first point of PARAM_GRID, and the prices a trade can leave at
ParamsStep ==
    \E row \in {[rsi |-> 15, bb_pband |-> -5, stoch_k |-> 10],
                [rsi |-> 80, bb_pband |-> 105, stoch_k |-> 90],
                [rsi |-> 50, bb_pband |-> 50, stoch_k |-> 50]} :
        \E exit_price \in {9920, 9940, 9970, 10000, 10030, 10060, 10080} :
            ParamsIteration(row @@ [atr |-> 100, close |-> 10000],
                            [rsi_oversold |-> 20, rsi_overbought |-> 70,
                             sl_mult |-> 6, tp_mult |-> 8,
                             signal_threshold |-> 45],
                            exit_price, MaxOptimizeBars + 98)

NextOptimize ==
    \/ NextBarOptimize
    \/ LoopEnd
    \/ CheckExitLev
    \/ EntryFast
    \/ StatsFast
    \/ ParamsStep
    \/ ParamsReturn(MaxOptimizeBars + 98)

SpecOptimize == InitOptimize /\ [][NextOptimize]_vars

----------------------------------------------------------------------------
(* The comparators: main of src/backtest_all.py and of                      *)
(* src/compare_strategies.py run one replay per strategy on the same bars   *)

\* largest number of bars of the shared frame
MaxCompareBars == 2

\* largest number of runs of one comparison
MaxRuns == 3

\* the strategies of the registry: lines 158-163 of backtest_all.py
ComparedStrategies ==
    {"OvernightStrategy", "TrendStrategy", "BreakoutStrategy", "ComboStrategy"}

\* strategy.analyze(ind, '1h') of the strategy object a run was handed
analyze_of(cls, ind) ==
    CASE cls = "OvernightStrategy" -> OvernightStrategy_analyze(ind)
      [] cls = "TrendStrategy"     -> TrendStrategy_analyze(ind)
      [] cls = "BreakoutStrategy"  -> BreakoutStrategy_analyze(ind)
      [] cls = "ComboStrategy"     -> ComboStrategy_analyze(ind)
      [] OTHER                     -> analyze(ind)

\* a run that starts from the capital the run before it ended with
run_capital_carried(cap) == cap

\* capital = initial_capital at the head of a run, whatever the capital the
\* run before it ended with
run_capital(cap) == initial_capital

\* the frames df, from the row of index 50 on: bars closing at 100 dollars
\* that reach the stop or the target of a long, each with the values the
\* indicators take at it, an oversold market or a breakout under an ATR of
\* 1 dollar
CompareFrames ==
    LET rows == {[bar |-> b, ind |-> [atr |-> 100] @@ sh] :
                    b \in {[low |-> 9900, high |-> 10050, close |-> 10000],
                           [low |-> 9950, high |-> 10200, close |-> 10000]},
                    sh \in {x \in Shapes(10000) :
                               "rsi" \in DOMAIN x /\ x["rsi"] \in {20, 70}}}
    IN  UNION {[1..n -> rows] : n \in 1..MaxCompareBars}

\* the whole frame, later bars included
historical_whole(frame, k) == frame

\* historical = df.iloc[:i+1].copy(): the rows up to the bar of index k
historical(frame, k) == SubSeq(frame, 1, k - FirstBar + 1)

\* calculate_all(historical): the indicators at the last row of the frame it
\* is handed, and indicators['price'] = df['close'].iloc[-1]
calculate_all(frame) ==
    [price |-> frame[Len(frame)].bar.close] @@ frame[Len(frame)].ind

InitCompare ==
    /\ engine \in {"backtest_all", "compare_strategies"}
    /\ leverage = 20
    /\ pc = "loop"
    /\ i = FirstBar - 1
    /\ current_bar = NoBar
    /\ position = NoPosition
    /\ capital = initial_capital
    /\ equity_curve = <<>>
    /\ trades = <<>>
    /\ consecutive_losses = 0
    /\ cooldown_bars = 0
    /\ steps = <<>>
    /\ opened = 0
    /\ run = 1
    /\ result = NoResult
    /\ first_result = NoResult
    /\ df \in CompareFrames
    /\ signal = NoSignal
    /\ strategy \in ComparedStrategies
    /\ snapshot = NoSnapshot
    /\ scores = NoScores
    /\ results = <<>>
    /\ signal_timestamp = NoTime
    /\ LiveStart

\* ind = indicators_calc.calculate_all(historical) and, in the entry step,
\* signal = strategy.analyze(ind, '1h')
CheckEntryCompare ==
    EntryLev(analyze_of(strategy, calculate_all(historical(df, i))))

\* `if result: results.append(result)` and the next pass of the loop over
\* the registry: the call of the replay with the next strategy, whose head
\* sets trades = [], position = None and capital = initial_capital
NextRun(next) ==
    /\ pc = "done"
    /\ run < MaxRuns
    /\ results' = IF result.kind = "None" THEN results
                  ELSE Append(results, [name |-> strategy, result |-> result])
    /\ run' = run + 1
    /\ strategy' = next
    /\ trades' = <<>>
    /\ position' = NoPosition
    /\ capital' = run_capital(capital)
    /\ i' = FirstBar - 1
    /\ current_bar' = NoBar
    /\ steps' = <<>>
    /\ opened' = 0
    /\ result' = NoResult
    /\ pc' = "loop"
    /\ UNCHANGED <<engine, leverage, equity_curve, consecutive_losses,
                   cooldown_bars, first_result, df, signal, snapshot, scores,
                   signal_timestamp, live_vars>>

\* the registry is exhausted: the last result is collected
EndCompare ==
    /\ pc = "done"
    /\ pc' = "compared"
    /\ results' = IF result.kind = "None" THEN results
                  ELSE Append(results, [name |-> strategy, result |-> result])
    /\ UNCHANGED <<engine, leverage, i, current_bar, position, capital,
                   equity_curve, trades, consecutive_losses, cooldown_bars,
                   steps, opened, run, result, first_result, df, signal,
                   strategy, snapshot, scores, signal_timestamp,
                   live_vars>>

NextCompare ==
    \/ NextBarDf
    \/ LoopEndDf
    \/ CheckExitLev
    \/ CheckEntryCompare
    \/ StatsLev
    \/ \E next \in ComparedStrategies : NextRun(next)
    \/ EndCompare

SpecCompare == InitCompare /\ [][NextCompare]_vars

----------------------------------------------------------------------------
(* Properties *)

LastTrade == trades[Len(trades)]

\* C1: at most one position is open at any time: a position is created only
\* when the slot is empty and the slot is emptied when the position closes,
\* so the positions created exceed the trades closed by one exactly when
\* the slot holds a position, and never by more
SinglePosition ==
    /\ opened - Len(trades) \in {0, 1}
    /\ pc \notin {"stats", "done"} =>
           (position # NoPosition <=> opened = Len(trades) + 1)

\* a second position of backtest_strategy, opened after the first closed
SinglePositionWitness ==
    /\ engine = "backtest_all"
    /\ position # NoPosition
    /\ opened = 2
    /\ Len(trades) = 1

\* C2: on every bar Backtester.run_backtest runs check-exit, cooldown-tick,
\* check-entry, record-equity in this order: the steps done on the bar are
\* the prefix of that order leading to the current step, the equity point
\* of the bar is appended last, and a position entered on the bar was
\* entered after the countdown of the bar brought the cooldown to zero
FixedOrder ==
    LET order == <<"check_exit", "cooldown_tick", "check_entry", "record_equity">>
        done  == CASE pc = "check_exit"    -> 0
                   [] pc = "cooldown_tick" -> 1
                   [] pc = "check_entry"   -> 2
                   [] pc = "record_equity" -> 3
                   [] OTHER                -> IF i >= FirstBar THEN 4 ELSE 0
    IN  engine = "backtest" =>
            /\ steps = SubSeq(order, 1, done)
            /\ Len(equity_curve) =
                   IF i < FirstBar THEN 0
                   ELSE (i - FirstBar) + (IF done = 4 THEN 1 ELSE 0)
            /\ (position # NoPosition /\ position.entry_time = i) =>
                   /\ done >= 3
                   /\ cooldown_bars = 0

\* a position entered on the bar whose countdown ended a cooldown: the
\* cooldown was still 1 when the bar began
FixedOrderWitness ==
    /\ engine = "backtest"
    /\ pc = "record_equity"
    /\ position # NoPosition
    /\ position.entry_time = i
    /\ consecutive_losses >= 3
    /\ Len(trades) >= 3
    /\ LastTrade.exit_time = i - 4

\* C3: after the close that makes three losses in a row, no position is
\* opened on any of the 5 bars following the bar of that close
CooldownFiveBars ==
    \A j \in 3..Len(trades) :
        (trades[j - 2].pnl < 0 /\ trades[j - 1].pnl < 0 /\ trades[j].pnl < 0) =>
            LET blocked == (trades[j].exit_time + 1)..(trades[j].exit_time + 5)
            IN  /\ position # NoPosition => position.entry_time \notin blocked
                /\ \A k \in 1..Len(trades) : trades[k].entry_time \notin blocked

\* C4: every close of Backtester, forced closes included, updates the risk
\* state: a loss adds one to consecutive_losses and starts a cooldown of 5
\* when the count reaches 3, a win resets consecutive_losses to zero
RiskUpdateOnEveryClose ==
    [][(engine = "backtest" /\ Len(trades') = Len(trades) + 1) =>
          LET t == trades'[Len(trades')]
          IN  /\ t.pnl < 0 =>
                     /\ consecutive_losses' = consecutive_losses + 1
                     /\ consecutive_losses' >= 3 => cooldown_bars' = 5
              /\ t.pnl > 0 => consecutive_losses' = 0]_vars

\* C5: when one bar reaches both the stop and the target of the open
\* position, the position is closed on that bar as a stop_loss at the stop
\* price
StopBeforeTarget ==
    (steps # <<>> /\ i >= FirstBar) =>
        LET both(p) ==
                IF IsLong(p)
                THEN current_bar.low <= p.stop_loss
                     /\ current_bar.high >= p.take_profit
                ELSE current_bar.high >= p.stop_loss
                     /\ current_bar.low <= p.take_profit
        IN  /\ (position # NoPosition /\ position.entry_time < i) =>
                   ~both(position)
            /\ (/\ trades # <<>>
                /\ LastTrade.exit_time = i
                /\ LastTrade.exit_reason # "forced_close"
                /\ both(LastTrade)) =>
                   /\ LastTrade.exit_reason = "stop_loss"
                   /\ LastTrade.exit_price = LastTrade.stop_loss

\* a short closed at its stop on a bar that also fell to its target
StopBeforeTargetWitness ==
    /\ steps # <<>>
    /\ trades # <<>>
    /\ LastTrade.exit_time = i
    /\ ~IsLong(LastTrade)
    /\ current_bar.high >= LastTrade.stop_loss
    /\ current_bar.low <= LastTrade.take_profit
    /\ LastTrade.exit_reason = "stop_loss"

LeveragedPnl ==
    (/\ engine = "backtest_all"
     /\ trades # <<>>
     /\ LastTrade.exit_reason \in {"stop_loss", "take_profit"}) =>
        LET t      == LastTrade
            before == capital - t.pnl
            move   == IF IsLong(t) THEN t.exit_price - t.entry_price
                      ELSE t.entry_price - t.exit_price
        IN  IF move * leverage <= -t.entry_price
            THEN t.pnl = -RoundDiv(before * position_size, 100)
            ELSE t.pnl = Scale(before, move * leverage * position_size,
                               t.entry_price * 100)

\* a long at leverage 10 stopped 15 % below its entry: the loss is the
\* whole slice of 10 % of the capital, not 15 %
LeveragedPnlWitness ==
    /\ engine = "backtest_all"
    /\ leverage = 10
    /\ Len(trades) = 1
    /\ LastTrade.exit_reason = "stop_loss"
    /\ LastTrade.pnl_pct = <<-3, 20>>
    /\ LastTrade.pnl = -(initial_capital \div 10)

AllPositionsLogged ==
    pc = "done" =>
        /\ position # NoPosition =>
               /\ trades # <<>>
               /\ LastTrade.entry_time = position.entry_time
               /\ LastTrade.exit_reason = "forced_close"
               /\ LastTrade.exit_price = current_bar.close
        /\ opened = Len(trades)
        /\ \A j, k \in 1..Len(trades) :
               trades[j].entry_time = trades[k].entry_time => j = k

\* C10: a second call of run_backtest on the same bars returns the result
\* of the first, on a new Backtester and on the same one
SameResultOnRerun ==
    (pc = "done" /\ run = 2) => result = first_result

----------------------------------------------------------------------------
(* Properties of the strategies and of the replay loop's bookkeeping *)

\* C15: every Signal an analyze returns is at the snapshot's price and has
\* levels that bracket it: a buy has stop_loss < price < take_profit, a sell
\* has take_profit < price < stop_loss
LevelsBracketPrice ==
    (pc = "returned" /\ signal # NoSignal) =>
        /\ signal.signal_type \in SignalTypes \ {"NEUTRAL"}
        /\ signal.price = snapshot["price"]
        /\ IF signal.signal_type \in BuySide
           THEN signal.stop_loss < signal.price
                /\ signal.price < signal.take_profit
           ELSE signal.take_profit < signal.price
                /\ signal.price < signal.stop_loss

\* a short signal of TrendStrategy has been returned
LevelsBracketPriceWitness ==
    /\ pc = "returned"
    /\ strategy = "TrendStrategy"
    /\ signal # NoSignal
    /\ signal.signal_type \in {"SELL", "STRONG_SELL"}
    /\ signal.take_profit < signal.price

\* C16: for every Signal of OvernightStrategy the stop is the candidate
\* nearest to the price among those at least 0.5 ATR away, the target is the
\* nearest candidate at least as far from the price as the stop, and so the
\* returned levels have |take_profit - price| >= |price - stop_loss|
DynamicLevelsRewardRisk ==
    (pc = "returned" /\ strategy = "OvernightStrategy" /\ signal # NoSignal) =>
        LET P     == snapshot["price"] * 10000
            a     == atr_of(snapshot)
            total == OvernightStrategy_total_score(snapshot)
            side  == IF total > 0 THEN 1 ELSE -1
            \* distances measured on the losing and on the winning side
            Risk(level)   == side * (P - level)
            Reward(level) == side * (level - P)
            stops   == sl_candidates(snapshot, total, snapshot["price"], a)
            targets == tp_candidates(snapshot, total, snapshot["price"], a)
            stop    == dynamic_stop(snapshot, total, snapshot["price"], a)
            target  == dynamic_target(snapshot, total, snapshot["price"], a,
                                      stop)
        IN  /\ stop \in stops
            /\ Risk(stop) >= 50 * a
            /\ \A c \in stops : Risk(c) >= 50 * a => Risk(stop) <= Risk(c)
            /\ target \in targets
            /\ Reward(target) >= Risk(stop)
            /\ \A c \in targets :
                   Reward(c) >= Risk(stop) => Reward(target) <= Reward(c)
            /\ signal.stop_loss = RoundDiv(stop, 10000)
            /\ signal.take_profit = RoundDiv(target, 10000)
            /\ Abs(signal.take_profit - signal.price)
                   >= Abs(signal.price - signal.stop_loss)

\* a short signal of OvernightStrategy whose stop sits above a resistance or
\* the upper band and whose target is a structure level, neither being the
\* ATR default
DynamicLevelsRewardRiskWitness ==
    /\ pc = "returned"
    /\ strategy = "OvernightStrategy"
    /\ signal # NoSignal
    /\ signal.signal_type \in {"SELL", "STRONG_SELL"}
    /\ "atr" \in DOMAIN snapshot
    /\ signal.stop_loss # signal.price + (snapshot["atr"] * 8) \div 10
    /\ signal.take_profit # signal.price - (snapshot["atr"] * 15) \div 10

\* C20: a snapshot holding only the price gives a sub-score of 0 in every
\* scoring component of every strategy that scores it
NeutralDefaults ==
    (pc = "returned" /\ DOMAIN snapshot = {"price"} /\ scores # NoScores) =>
        \A component \in DOMAIN scores : scores[component] = 0

\* C19: a bar without a usable snapshot skips only the entry step, the stop
\* and take-profit check of an open position still runs on it: once a bar
\* is over, a position opened on an earlier bar that is still open was not
\* hit by the bar
ExitCheckedOnEveryBar ==
    (engine = "run_backtest_fast" /\ pc = "loop" /\ position # NoPosition
        /\ position.entry_time < i) =>
        check_exit(position, current_bar).exit_reason = "none"

\* C11: a position is opened only by a step that finds the slot empty, the
\* cooldown at 0 and capital > 0, and a replay whose capital has fallen to
\* 0 or below has left its loop, so it opens nothing any more
CapitalGate ==
    [][/\ opened' # opened =>
              /\ position = NoPosition
              /\ cooldown_bars = 0
              /\ capital > 0
       /\ capital' <= 0 => pc' \in {"forced_close", "stats", "done"}
       /\ capital <= 0 => opened' = opened]_vars

\* a replay that lost all its capital has ended before its last bar
CapitalGateWitness ==
    /\ capital <= 0
    /\ pc = "done"
    /\ opened > 0
    /\ i < FirstBar + MaxBars - 1

\* C12: a position of Backtester is opened with size 1.0 for a strength of
\* at least 50, 0.8 for 40..49 and 0.6 below, halved when two or more
\* losses in a row precede the entry; the size lies in (0, 1], stays as it
\* is while the position is open and is the size its trade is logged with
PositionSizing ==
    [][engine = "backtest" =>
          /\ opened' # opened =>
                 LET tier == CASE signal'.strength >= 50 -> 100
                               [] signal'.strength >= 40 -> 80
                               [] OTHER                  -> 60
                 IN  /\ position'.position_size * 2 =
                            IF consecutive_losses >= 2 THEN tier ELSE 2 * tier
                     /\ position'.position_size > 0
                     /\ position'.position_size <= 100
          /\ (position # NoPosition /\ position' # NoPosition) =>
                 position'.position_size = position.position_size
          /\ Len(trades') > Len(trades) =>
                 trades'[Len(trades')].position_size = position.position_size
      ]_vars

\* a position opened after two losses in a row at half of the middle tier
PositionSizingWitness ==
    /\ engine = "backtest"
    /\ position # NoPosition
    /\ consecutive_losses >= 2
    /\ signal.strength \in 40..49
    /\ position.position_size = 40

\* C13: a stop / take-profit close is logged at exactly the level that was
\* triggered, with the matching reason, on a bar whose range reached that
\* level, a take_profit only when the bar did not reach the stop, and with
\* pnl_pct = (exit - entry) / entry for a long, (entry - exit) / entry for a
\* short
ExitAtTriggeredLevel ==
    [][(Len(trades') > Len(trades)
        /\ trades'[Len(trades')].exit_reason # "forced_close") =>
          LET t == trades'[Len(trades')]
              long == position.signal_type \in BuySide
              stop_reached == IF long
                              THEN current_bar.low <= position.stop_loss
                              ELSE current_bar.high >= position.stop_loss
              target_reached == IF long
                                THEN current_bar.high >= position.take_profit
                                ELSE current_bar.low <= position.take_profit
              move == IF long THEN t.exit_price - position.entry_price
                      ELSE position.entry_price - t.exit_price
          IN  /\ position # NoPosition
              /\ t.exit_time = i
              /\ t.exit_reason \in {"stop_loss", "take_profit"}
              /\ t.exit_reason = "stop_loss" =>
                     stop_reached /\ t.exit_price = position.stop_loss
              /\ t.exit_reason = "take_profit" =>
                     /\ target_reached
                     /\ ~stop_reached
                     /\ t.exit_price = position.take_profit
              /\ t.pnl_pct[2] > 0
              /\ t.pnl_pct[1] * position.entry_price = move * t.pnl_pct[2]
      ]_vars

\* a short closed at its target, below the bar's close, on a bar that did
\* not rise to its stop
ExitAtTriggeredLevelWitness ==
    /\ trades # <<>>
    /\ LastTrade.exit_time = i
    /\ LastTrade.signal_type \in {"SELL", "STRONG_SELL"}
    /\ LastTrade.exit_reason = "take_profit"
    /\ LastTrade.exit_price = LastTrade.take_profit
    /\ current_bar.high < LastTrade.stop_loss
    /\ current_bar.low < LastTrade.exit_price
    /\ LastTrade.pnl_pct[1] > 0

\* C14: every trade in the log was closed on its entry bar or later, and
\* its pnl is positive exactly when the price moved in its favour (exit
\* above entry for a long, below for a short) and negative exactly when it
\* moved against it
PnlSignFollowsMove ==
    \A k \in 1..Len(trades) :
        LET t == trades[k]
            favour == IF t.signal_type \in BuySide
                      THEN t.exit_price - t.entry_price
                      ELSE t.entry_price - t.exit_price
        IN  /\ t.exit_time >= t.entry_time
            /\ t.pnl > 0 <=> favour > 0
            /\ t.pnl < 0 <=> favour < 0

\* a log with a losing long, a winning short and a position closed by
\* force on the bar it was opened on, at no gain and no loss
PnlSignFollowsMoveWitness ==
    /\ \E k \in 1..Len(trades) :
           trades[k].signal_type \in BuySide /\ trades[k].pnl < 0
    /\ \E k \in 1..Len(trades) :
           trades[k].signal_type \notin BuySide /\ trades[k].pnl > 0
    /\ \E k \in 1..Len(trades) :
           /\ trades[k].exit_reason = "forced_close"
           /\ trades[k].exit_time = trades[k].entry_time
           /\ trades[k].pnl = 0

\* C17: the cooldown counter stays in 0..5 and the loss counter at 0 or
\* above; the tick of a bar takes exactly one off a counter above 0 and
\* leaves a counter at 0 alone, no other step but a close changes the
\* counter, and a position is opened only with the counter at 0 after the
\* tick
CooldownCounter ==
    [][/\ cooldown_bars' \in 0..5
       /\ consecutive_losses' \in Nat
       /\ pc = "cooldown_tick" =>
              cooldown_bars' = IF cooldown_bars > 0 THEN cooldown_bars - 1
                               ELSE 0
       /\ pc \notin {"cooldown_tick", "check_exit"} =>
              cooldown_bars' = cooldown_bars
       /\ opened' # opened =>
              cooldown_bars = 0 /\ "cooldown_tick" = steps[Len(steps)]
      ]_vars

\* the entry step of a bar has run with the counter above 0 after the tick,
\* three losses in a row behind it, and has opened nothing
CooldownCounterWitness ==
    /\ pc = "record_equity"
    /\ steps = <<"check_exit", "cooldown_tick", "check_entry">>
    /\ cooldown_bars \in 1..3
    /\ consecutive_losses >= 3
    /\ position = NoPosition

\* C18: Backtester appends one equity point per replayed bar, in bar order,
\* in the last step of the bar and in no other: its time is the bar's, its
\* equity is capital plus the open position's move from entry to the bar's
\* close applied to capital, and so is capital itself when no position is
\* open and on the bar the position was opened
EquityPointPerBar ==
    [][engine = "backtest" =>
          /\ pc # "record_equity" => equity_curve' = equity_curve
          /\ pc = "record_equity" =>
                 LET point  == equity_curve'[Len(equity_curve')]
                     favour == IF position.signal_type \in BuySide
                               THEN current_bar.close - position.entry_price
                               ELSE position.entry_price - current_bar.close
                 IN  /\ equity_curve' = Append(equity_curve, point)
                     /\ Len(equity_curve') = i - FirstBar + 1
                     /\ point.time = i
                     /\ point.price = current_bar.close
                     /\ point.equity =
                            IF position = NoPosition THEN capital
                            ELSE capital
                                 + Scale(capital, favour, position.entry_price)
                     /\ (position = NoPosition \/ position.entry_time = i) =>
                            point.equity = capital
          /\ \A k \in 1..Len(equity_curve') :
                 equity_curve'[k].time = FirstBar + k - 1
      ]_vars

\* the point of a bar on which a short opened earlier is held at a loss
EquityPointPerBarWitness ==
    /\ engine = "backtest"
    /\ pc = "loop"
    /\ position # NoPosition
    /\ position.signal_type \notin BuySide
    /\ position.entry_time < i
    /\ Len(equity_curve) = i - FirstBar + 1
    /\ equity_curve[Len(equity_curve)].equity < capital

\* C21: a strategy with a regime classifier returns no Signal when the
\* classifier yields the class that is neither trending nor ranging: mixed
\* for TradingStrategy, neutral for TrendStrategy and ComboStrategy
NeutralRegimeNoSignal ==
    (/\ pc = "returned"
     /\ "price" \in DOMAIN snapshot
     /\ \/ strategy = "TradingStrategy"
           /\ _get_market_state(snapshot) = "mixed"
        \/ strategy = "TrendStrategy"
           /\ _get_main_trend(snapshot) = "neutral"
        \/ strategy = "ComboStrategy"
           /\ _identify_market_state(snapshot) = "neutral") =>
        signal = NoSignal

\* the aggregate score analyze computed on the snapshot (in the strategy's
\* own unit), 0 when it returned before scoring
AggregateScore ==
    CASE scores = NoScores -> 0
      [] strategy = "TradingStrategy"   -> total_score(snapshot)
      [] strategy = "TrendStrategy"     -> scores.entry_signal
      [] strategy = "ComboStrategy"     ->
             IF "trend" \in DOMAIN scores THEN scores.trend ELSE scores.mean_rev
      [] strategy = "OvernightStrategy" -> OvernightStrategy_total_score(snapshot)
      [] OTHER                          -> scores.breakout

\* C22: every Signal an analyze returns has a non-neutral type on the side
\* of the sign of the aggregate score, buy for a positive and sell for a
\* negative one, and an integer strength in 1..100
SignalSideAndStrength ==
    (pc = "returned" /\ signal # NoSignal) =>
        /\ signal.signal_type \in {"STRONG_BUY", "BUY", "SELL", "STRONG_SELL"}
        /\ AggregateScore # 0
        /\ AggregateScore > 0 <=> signal.signal_type \in {"STRONG_BUY", "BUY"}
        /\ AggregateScore < 0 <=> signal.signal_type \in {"STRONG_SELL", "SELL"}
        /\ signal.strength \in 1..100

\* BreakoutStrategy has returned a sell on a negative score
SignalSideAndStrengthWitness ==
    /\ pc = "returned"
    /\ strategy = "BreakoutStrategy"
    /\ signal # NoSignal
    /\ scores.breakout < 0
    /\ signal.signal_type \in {"STRONG_SELL", "SELL"}
    /\ signal.strength = -scores.breakout

\* the largest score, in whole points, the signal-type mappings are compared on
MaxScore == 100

\* C23: every variant's _get_signal_type is symmetric (a score maps to the
\* buy side exactly when its negation maps to the sell side of the same
\* strength) and monotone (the five categories are ordered by score), and a
\* score it maps to NEUTRAL makes analyze return no Signal
SignalTypeSymmetricMonotone ==
    LET TypeOf(s) ==
            CASE strategy = "TradingStrategy"   -> _get_signal_type(s)
              [] strategy = "TrendStrategy"     -> TrendStrategy_get_signal_type(s)
              [] strategy = "ComboStrategy"     -> ComboStrategy_get_signal_type(s)
              [] strategy = "OvernightStrategy" -> OvernightStrategy_get_signal_type(s)
              [] OTHER                          -> BreakoutStrategy_get_signal_type(s)
        Unit == CASE strategy = "TradingStrategy"   -> 100
                  [] strategy = "OvernightStrategy" -> 10
                  [] OTHER                          -> 1
        Mirror(t) == CASE t = "STRONG_BUY"  -> "STRONG_SELL"
                       [] t = "BUY"         -> "SELL"
                       [] t = "SELL"        -> "BUY"
                       [] t = "STRONG_SELL" -> "STRONG_BUY"
                       [] OTHER             -> "NEUTRAL"
        Rank(t) == CASE t = "STRONG_SELL" -> 0
                     [] t = "SELL"        -> 1
                     [] t = "NEUTRAL"     -> 2
                     [] t = "BUY"         -> 3
                     [] OTHER             -> 4
        Grid == {p * Unit : p \in (-MaxScore)..MaxScore} \cup
                    {AggregateScore, -AggregateScore}
    IN  pc = "returned" =>
            /\ \A s \in Grid :
                  /\ TypeOf(-s) = Mirror(TypeOf(s))
                  /\ Rank(TypeOf(s)) <= Rank(TypeOf(s + 1))
                  /\ s <= AggregateScore =>
                        Rank(TypeOf(s)) <= Rank(TypeOf(AggregateScore))
                  /\ s >= AggregateScore =>
                        Rank(TypeOf(s)) >= Rank(TypeOf(AggregateScore))
            /\ TypeOf(AggregateScore) = "NEUTRAL" => signal = NoSignal

SignalTypeSymmetricMonotoneWitness ==
    /\ pc = "returned" /\ strategy = "TradingStrategy"
    /\ scores # NoScores
    /\ AggregateScore < 0
    /\ AggregateScore % 100 # 0
    /\ _get_signal_type(AggregateScore) = "NEUTRAL"
    /\ _get_signal_type(-AggregateScore) = "NEUTRAL"
    /\ signal = NoSignal

\* C24: analyze returns no Signal when the ATR, as a percentage of the price,
\* is outside the band of the strategy (TradingStrategy 0.3..5, TrendStrategy
\* and ComboStrategy 0.3..3, BreakoutStrategy 0.3..4, OvernightStrategy
\* 0.2..3); a missing ATR counts as 1 % of the price and passes the filter
AtrOutsideBandNoSignal ==
    LET price == snapshot["price"]
        \* the ATR in hundredths of a cent, so that 1 % of the price is price
        atr100 == IF "atr" \in DOMAIN snapshot THEN snapshot["atr"] * 100
                  ELSE price
        \* the lower edge in tenths of a percent
        low10 == IF strategy = "OvernightStrategy" THEN 2 ELSE 3
        high  == CASE strategy = "TradingStrategy"  -> 5
                   [] strategy = "BreakoutStrategy" -> 4
                   [] OTHER                         -> 3
    IN  (pc = "returned" /\ "price" \in DOMAIN snapshot) =>
            /\ (atr100 * 10 < low10 * price \/ atr100 > high * price) =>
                   signal = NoSignal
            /\ ("atr" \notin DOMAIN snapshot
                /\ strategy \in {"TradingStrategy", "OvernightStrategy",
                                 "BreakoutStrategy"}) => scores # NoScores

AtrOutsideBandNoSignalWitness ==
    /\ pc = "returned" /\ strategy = "BreakoutStrategy"
    /\ "price" \in DOMAIN snapshot /\ "atr" \in DOMAIN snapshot
    /\ snapshot["atr"] * 100 > 4 * snapshot["price"]
    /\ snapshot["atr"] * 100 <= 5 * snapshot["price"]
    /\ _detect_breakout(snapshot).valid
    /\ _detect_breakout(snapshot).score >= 50
    /\ Get(snapshot, "volume_ratio", 10) >= 15
    /\ signal = NoSignal

\* C25: analyze returns None, before it computes anything, when the snapshot
\* is empty or has no price, and the replay then opens no position on that bar
NoPriceNoSignal ==
    (pc \in {"returned", "entered"}
     /\ (DOMAIN snapshot = {} \/ "price" \notin DOMAIN snapshot)) =>
        /\ signal = NoSignal
        /\ scores = NoScores
        /\ position = NoPosition
        /\ opened = 0

NoPriceNoSignalWitness ==
    /\ pc = "entered"
    /\ DOMAIN snapshot # {}
    /\ "price" \notin DOMAIN snapshot
    /\ "atr" \in DOMAIN snapshot
    /\ strategy = "BreakoutStrategy"
    /\ signal = NoSignal
    /\ position = NoPosition

\* C26: a replay that closed no trade returns an explicit no-trades outcome,
\* an error record or None, and never a statistics object with numeric
\* fields such as a win rate of 0
NoTradesOutcome ==
    (pc = "done" /\ trades = <<>>) =>
        /\ "win_rate" \notin DOMAIN result
        /\ "kind" \in DOMAIN result
        /\ result.kind \in {"error", "None"}

\* C27: the statistics resolve the degenerate profit factor to the sentinel:
\* whenever a report covers at least one trade and the losing trades sum to
\* zero (no trade lost), profit_factor is the infinite sentinel
ProfitFactorSentinel ==
    (/\ pc = "done"
     /\ "profit_factor" \in DOMAIN result
     /\ Len(trades) >= 1
     /\ \A k \in 1..Len(trades) :
            IF engine = "backtest_params" THEN trades[k].trade_return[1] >= 0
            ELSE trades[k].pnl_pct[1] >= 0) =>
        result.profit_factor = Infinity

\* C28: the peak a drawdown is taken against is the cumulative maximum of
\* the equity series so far, every drawdown (equity - peak) / peak is <= 0,
\* and the reported max_drawdown is the least of them
MaxDrawdownOfRunningPeak ==
    (pc = "done" /\ result.kind = "stats") =>
        LET RECURSIVE After(_)
            \* the equity after the first k trades of a leveraged replay
            After(k) == IF k = 0 THEN initial_capital
                        ELSE After(k - 1) + trades[k].pnl
            series == IF engine = "backtest"
                      THEN [k \in 1..Len(equity_curve) |-> equity_curve[k].equity]
                      ELSE [k \in 1..(Len(trades) + 1) |-> After(k - 1)]
            Peak(k) == SetMax({series[j] : j \in 1..k})
            Drawdown(k) == Frac(series[k] - Peak(k), Peak(k))
        IN  /\ \A k \in 1..Len(series) :
                  /\ Peak(k) > 0
                  /\ Drawdown(k)[1] <= 0
                  /\ FracLE(result.max_drawdown, Drawdown(k))
            /\ \E k \in 1..Len(series) : result.max_drawdown = Drawdown(k)

MaxDrawdownOfRunningPeakWitness ==
    /\ pc = "done" /\ engine = "backtest" /\ result.kind = "stats"
    /\ Len(equity_curve) = 3
    /\ equity_curve[2].equity < equity_curve[1].equity
    /\ equity_curve[2].equity < equity_curve[3].equity
    /\ equity_curve[3].equity < equity_curve[1].equity
    /\ result.max_drawdown =
           Frac(equity_curve[2].equity - equity_curve[1].equity,
                equity_curve[1].equity)

\* C29: every run of a comparison starts from fresh engine state (the
\* initial capital, no position, an empty trade list) and no step changes the
\* shared bars, so the result a strategy gets is the one it got in any
\* earlier run of the comparison, whatever ran in between
FreshRunPerStrategy ==
    [][/\ df' = df
       /\ run' # run =>
              /\ capital' = initial_capital
              /\ position' = NoPosition
              /\ trades' = <<>>
       /\ (pc' = "done" /\ pc # "done") =>
              \A j \in 1..Len(results) :
                  results[j].name = strategy => results[j].result = result'
      ]_vars

FreshRunPerStrategyWitness ==
    /\ pc = "done" /\ run = 3
    /\ Len(results) = 2
    /\ results[1].name = strategy
    /\ results[2].name # strategy
    /\ results[2].result.final_capital # initial_capital
    /\ result = results[1].result
    /\ result.final_capital # results[2].result.final_capital

\* C30: the snapshot used at bar i is computed from the bars up to i only:
\* the signal the entry step gets at bar i is the one it would get on any
\* frame that has the same bars up to i and other bars after it
NoLookahead ==
    [][(pc = "check_entry" /\ entry_gate_lev(position, capital)) =>
           \A later \in CompareFrames :
               (/\ Len(later) >= i - FirstBar + 1
                /\ SubSeq(later, 1, i - FirstBar + 1)
                       = SubSeq(df, 1, i - FirstBar + 1)) =>
                   signal' = analyze_of(strategy,
                                        calculate_all(historical(later, i)))
      ]_vars

NoLookaheadWitness ==
    /\ pc = "loop" /\ i = FirstBar /\ Len(df) = 2
    /\ steps = <<"check_exit", "check_entry">>
    /\ position # NoPosition
    /\ signal = analyze_of(strategy, calculate_all(SubSeq(df, 1, 1)))
    /\ analyze_of(strategy, calculate_all(df)) = NoSignal

----------------------------------------------------------------------------
(* Properties of the clock, the levels, the marks and the order of trades *)

\* C31: nothing the replay loop computes depends on the real clock: every
\* time it holds (the entry_time and exit_time of the trades and of the open
\* position, the time of the equity points, the timestamp of the Signal
\* analyze returned) is the time of a bar replayed so far, so that replays
\* of the same bars started at different times cannot differ
ReplayTimesAreBarTimes ==
    LET replayed == FirstBar..i
    IN  /\ \A k \in 1..Len(trades) :
               /\ trades[k].entry_time \in replayed
               /\ trades[k].exit_time \in replayed
        /\ \A k \in 1..Len(equity_curve) : equity_curve[k].time \in replayed
        /\ position # NoPosition => position.entry_time \in replayed
        /\ signal # NoSignal => signal_timestamp \in replayed

\* C32: every Signal of BreakoutStrategy.analyze has its stop_loss on the
\* losing side of the signal price, below it for a buy and above it for a
\* sell, whichever level _detect_breakout recorded last, also on snapshots
\* where an upward and a downward breakout condition both hold
BreakoutStopOnLosingSide ==
    (pc = "returned" /\ strategy = "BreakoutStrategy" /\ signal # NoSignal) =>
        IF signal.signal_type \in BuySide
        THEN signal.stop_loss < signal.price
        ELSE signal.stop_loss > signal.price

\* a sell on a close below S1 that also passes the test of the 20-bar high:
\* the level recorded last is S1, not the price
BreakoutStopOnLosingSideWitness ==
    /\ pc = "returned"
    /\ strategy = "BreakoutStrategy"
    /\ signal # NoSignal
    /\ signal.signal_type \notin BuySide
    /\ "s1" \in DOMAIN snapshot
    /\ snapshot["s1"] > snapshot["price"]
    /\ snapshot["price"] * 1000 > Get(snapshot, "high_20", snapshot["price"]) * 998
    /\ _detect_breakout(snapshot).breakout_level = snapshot["s1"] * 10000
    /\ signal.stop_loss > snapshot["s1"]

\* C33: in Backtester.run_backtest the unrealized P&L inside an equity point
\* is the P&L a close at that bar's close would realize: the mark, the
\* stop/take-profit close and the forced close scale the price move by the
\* same position_size fraction of capital, so that the final capital after a
\* forced close is the last equity point
MarkIsRealizablePnl ==
    LET last == Len(equity_curve)
    IN  /\ (/\ engine = "backtest"
            /\ position # NoPosition
            /\ last > 0
            /\ equity_curve[last].time = i) =>
               LET pp == pnl_pct_of(position, current_bar.close)
               IN  /\ equity_curve[last].equity - capital =
                          pnl_backtest(capital, position, pp)
                   /\ pnl_forced_close(capital, position, pp) =
                          pnl_backtest(capital, position, pp)
        /\ (/\ engine = "backtest"
            /\ pc = "stats"
            /\ position # NoPosition
            /\ last > 0) => capital = equity_curve[last].equity

\* C34: the trade log of Backtester.run_backtest is ordered and does not
\* overlap: exit times never decrease along the log, a trade is entered no
\* earlier than the trade before it was closed, a stop_loss or take_profit
\* exit is on a bar strictly later than the entry bar, and only a forced
\* close has exit_time = entry_time
TradeLogOrdered ==
    engine = "backtest" =>
        \A k \in 1..Len(trades) :
            /\ trades[k].exit_time >= trades[k].entry_time
            /\ trades[k].exit_reason # "forced_close" =>
                   trades[k].exit_time > trades[k].entry_time
            /\ k > 1 =>
                   /\ trades[k - 1].exit_time <= trades[k].exit_time
                   /\ trades[k].entry_time >= trades[k - 1].exit_time

\* a trade closed at its stop one bar after its entry, a second one entered
\* on that bar, and a last one forced closed on the bar it was entered on
TradeLogOrderedWitness ==
    /\ engine = "backtest"
    /\ pc = "stats"
    /\ Len(trades) = 3
    /\ trades[1].exit_reason = "stop_loss"
    /\ trades[1].exit_time = trades[1].entry_time + 1
    /\ trades[2].entry_time = trades[1].exit_time
    /\ trades[3].exit_reason = "forced_close"
    /\ trades[3].exit_time = trades[3].entry_time

\* C35: the risk counters of Backtester change in these ways only:
\* consecutive_losses changes on a stop/take-profit close and nowhere else,
\* by +1 when pnl < 0 and to 0 when pnl >= 0 (a break-even close resets it),
\* and the cooldown does not reset it; cooldown_bars is set to 5 by every
\* losing close that leaves consecutive_losses >= 3 and is otherwise only
\* counted down by the tick; so a fourth loss in a row arms a full cooldown
\* again and a position opened after two or more losses in a row is halved
RiskCountersFrame ==
    [][engine = "backtest" =>
          LET closed == pc = "check_exit" /\ Len(trades') = Len(trades) + 1
              pnl    == trades'[Len(trades')].pnl
              armed  == closed /\ pnl < 0 /\ consecutive_losses' >= 3
          IN  /\ ~closed => consecutive_losses' = consecutive_losses
              /\ closed =>
                     consecutive_losses' =
                         IF pnl < 0 THEN consecutive_losses + 1 ELSE 0
              /\ armed => cooldown_bars' = 5
              /\ ~armed =>
                     cooldown_bars' =
                         IF pc = "cooldown_tick" /\ cooldown_bars > 0
                         THEN cooldown_bars - 1 ELSE cooldown_bars
              /\ (opened' # opened /\ consecutive_losses >= 2) =>
                     position'.position_size \in {50, 40, 30}
              /\ \A losses \in 0..4 :
                     risk_after_close(0, losses, cooldown_bars)
                         = [consecutive_losses |-> 0,
                            cooldown_bars |-> cooldown_bars]
      ]_vars

\* the fourth loss in a row, of a halved position opened after the cooldown
\* of the third had run out, has armed the cooldown again
RiskCountersFrameWitness ==
    /\ engine = "backtest"
    /\ pc = "cooldown_tick"
    /\ consecutive_losses = 4
    /\ cooldown_bars = 5
    /\ Len(trades) = 4
    /\ trades[4].pnl < 0
    /\ trades[4].position_size = 50
    /\ trades[4].entry_time = trades[3].exit_time + 4

\* C36: TrendStrategy returns a buy-side Signal only when its main trend is
\* up (ADX >= 30 and at least 4 of the 5 confirmations) with a MACD
\* histogram above 0 and DI+ above DI-, and a sell-side Signal only when the
\* main trend is down with the mirrored conditions: never against the trend
TrendSignalWithTrend ==
    (pc = "returned" /\ strategy = "TrendStrategy" /\ signal # NoSignal) =>
        LET price     == snapshot["price"]
            ma20      == Get(snapshot, "ma_20", price)
            ma50      == Get(snapshot, "ma_50", price)
            macd_hist == Get(snapshot, "macd_hist", 0)
            di_plus   == Get(snapshot, "di_plus", 0)
            di_minus  == Get(snapshot, "di_minus", 0)
            confirmed ==
                {c \in 1..5 :
                     CASE c = 1 -> price > ma20
                       [] c = 2 -> price > ma50
                       [] c = 3 -> Get(snapshot, "ema_9", price)
                                       > Get(snapshot, "ema_21", price)
                       [] c = 4 -> ma20 > ma50
                       [] c = 5 -> di_plus > di_minus}
        IN  /\ Get(snapshot, "adx", 20) >= 30
            /\ IF signal.signal_type \in BuySide
               THEN /\ _get_main_trend(snapshot) = "up"
                    /\ Cardinality(confirmed) >= 4
                    /\ macd_hist > 0
                    /\ di_plus > di_minus
               ELSE /\ _get_main_trend(snapshot) = "down"
                    /\ 5 - Cardinality(confirmed) >= 4
                    /\ macd_hist < 0
                    /\ di_minus > di_plus

\* a sell of TrendStrategy in a down-trend
TrendSignalWithTrendWitness ==
    /\ pc = "returned"
    /\ strategy = "TrendStrategy"
    /\ signal # NoSignal
    /\ signal.signal_type \notin BuySide
    /\ _get_main_trend(snapshot) = "down"

----------------------------------------------------------------------------
(* Specification: the running bots TradingBot (src/main.py) and            *)
(* MultiStrategyBot (src/main_multi.py) with their DataFetcher             *)
(* (src/data_fetcher.py), one analysis cycle after another.  The clock is  *)
(* in minutes; the fetches of fetch_all_timeframes touch one timeframe     *)
(* each and are taken in the order of the configuration.                   *)

\* last minute of the clock, which starts at minute 1
MaxClock == 4

\* largest number of analysis cycles
MaxCycles == 2

\* config['strategy']['min_signal_interval'], in minutes
min_signal_interval == 2

\* timedelta(minutes=5) of the market alerts
alert_interval == 5

\* DataFetcher.retry_count
retry_count == 3

\* config['trading']['timeframes']: one frame with market alerts, one without
timeframes == <<"15m", "4h">>

\* the strategy objects of a bot: the one of TradingBot, the default list of
\* MultiStrategyBot
bot_strategies(bot) ==
    IF bot = "TradingBot" THEN <<"TradingStrategy">>
    ELSE <<"TrendStrategy", "ComboStrategy">>

\* what the bots never touch
replay_vars ==
    <<leverage, i, current_bar, position, capital, equity_curve, trades,
      consecutive_losses, cooldown_bars, steps, opened, run, result,
      first_result, df, snapshot, scores, results>>

\* values strategy.analyze returns to a bot: a signal or None
live_signals ==
    {[signal_type |-> "BUY", strength |-> 60, price |-> initial_capital,
      stop_loss |-> initial_capital - 400,
      take_profit |-> initial_capital + 800],
     NoSignal}

\* a throttle that lets a signal through at exactly the interval
_should_send_signal_at_interval(last, key, t) ==
    key \notin DOMAIN last \/ t - last[key] >= min_signal_interval

\* _should_send_signal at clock reading t, for the dict last of a strategy
_should_send_signal(last, key, t) ==
    key \notin DOMAIN last \/ t - last[key] > min_signal_interval

\* a retry loop that makes one attempt more
fetch_result_one_more(ended, made) ==
    IF ended = "ok" THEN "data"
    ELSE IF made <= retry_count THEN "pending"
    ELSE "empty"

\* what the retry loop does after its attempt number `made` ended: return
\* the data, go round again, or fall out of the loop and return the empty
\* value
fetch_result(ended, made) ==
    IF ended = "ok" THEN "data"
    ELSE IF made < retry_count THEN "pending"
    ELSE "empty"

\* a startup flag that is never consulted
mail_held_never(delay) == FALSE

\* `if self.startup_delay`: the e-mail is held back
mail_held(delay) == delay

\* the next frame of all_data after position k: a timeframe is in all_data
\* when its fetch of this cycle returned data; 0 when there is none
timeframe_after(k, cache, cyc) ==
    LET later == {j \in (k + 1)..Len(timeframes) :
                      /\ timeframes[j] \in DOMAIN cache
                      /\ cache[timeframes[j]] = cyc}
    IN  IF later = {} THEN 0
        ELSE CHOOSE j \in later : \A m \in later : j <= m

InitLive ==
    /\ engine \in {"TradingBot", "MultiStrategyBot"}
    /\ leverage = 1
    /\ pc = "sleep"
    /\ i = FirstBar - 1
    /\ current_bar = NoBar
    /\ position = NoPosition
    /\ capital = initial_capital
    /\ equity_curve = <<>>
    /\ trades = <<>>
    /\ consecutive_losses = 0
    /\ cooldown_bars = 0
    /\ steps = <<>>
    /\ opened = 0
    /\ run = 1
    /\ result = NoResult
    /\ first_result = NoResult
    /\ df = <<>>
    /\ signal = NoSignal
    /\ strategy = bot_strategies(engine)[1]
    /\ snapshot = NoSnapshot
    /\ scores = NoScores
    /\ results = <<>>
    /\ signal_timestamp = NoTime
    /\ LiveStart

\* `while self.running: await self._analyze_cycle()`: the cycle begins with
\* the call of fetch_ticker
CycleStart ==
    /\ pc = "sleep"
    /\ cycle < MaxCycles
    /\ cycle' = cycle + 1
    /\ pc' = "fetch_ticker"
    /\ attempts' = 0
    /\ outcome' = "none"
    /\ fetched' = "pending"
    /\ UNCHANGED <<engine, strategy, now, startup_delay, last_signal_time,
                   last_alert_time, sent, timeframe, data_cache>>
    /\ UNCHANGED <<signal, signal_timestamp>>
    /\ UNCHANGED replay_vars

\* `await asyncio.sleep(interval)`: the clock moves on
Sleep ==
    /\ pc = "sleep"
    /\ now < MaxClock
    /\ now' = now + 1
    /\ UNCHANGED <<engine, pc, strategy, cycle, startup_delay,
                   last_signal_time, last_alert_time, sent, timeframe,
                   data_cache, attempts, outcome, fetched>>
    /\ UNCHANGED <<signal, signal_timestamp>>
    /\ UNCHANGED replay_vars

\* one pass of `for attempt in range(self.retry_count)` in fetch_ticker or
\* fetch_ohlcv: the call of the exchange ends with a result, a timeout or
\* another exception; only a result is stored in data_cache
FetchAttempt(ended) ==
    /\ pc \in {"fetch_ticker", "fetch_ohlcv"}
    /\ fetched = "pending"
    /\ attempts' = attempts + 1
    /\ outcome' = ended
    /\ fetched' = fetch_result(ended, attempts + 1)
    /\ data_cache' = IF ended = "ok" /\ pc = "fetch_ohlcv"
                     THEN (timeframes[timeframe] :> cycle) @@ data_cache
                     ELSE data_cache
    /\ UNCHANGED <<engine, pc, strategy, now, cycle, startup_delay,
                   last_signal_time, last_alert_time, sent, timeframe>>
    /\ UNCHANGED <<signal, signal_timestamp>>
    /\ UNCHANGED replay_vars

\* the fetch has returned: without a ticker the cycle ends, with one the
\* frames are fetched, and after the last fetch the frames of all_data are
\* analysed
FetchReturn ==
    /\ pc \in {"fetch_ticker", "fetch_ohlcv"}
    /\ fetched \in {"data", "empty"}
    /\ LET again == IF pc = "fetch_ticker" THEN fetched = "data"
                    ELSE timeframe < Len(timeframes)
           first == timeframe_after(0, data_cache, cycle)
       IN  IF again
           THEN /\ pc' = "fetch_ohlcv"
                /\ timeframe' = timeframe + 1
                /\ attempts' = 0
                /\ outcome' = "none"
                /\ fetched' = "pending"
           ELSE /\ timeframe' = IF pc = "fetch_ticker" THEN 0 ELSE first
                /\ pc' = IF pc = "fetch_ticker" \/ first = 0 THEN "cycle_end"
                         ELSE IF engine = "TradingBot" THEN "analyze_timeframe"
                         ELSE "check_market_alerts"
                /\ UNCHANGED <<attempts, outcome, fetched>>
    /\ UNCHANGED <<engine, strategy, now, cycle, startup_delay,
                   last_signal_time, last_alert_time, sent, data_cache>>
    /\ UNCHANGED <<signal, signal_timestamp>>
    /\ UNCHANGED replay_vars

\* TradingBot._analyze_timeframe on the value analyze returned, stamped with
\* the clock; sending takes `took` minutes, and the time is recorded after it
AnalyzeTimeframe(returned, took) ==
    /\ engine = "TradingBot"
    /\ pc = "analyze_timeframe"
    /\ signal' = returned
    /\ signal_timestamp' = IF returned = NoSignal THEN NoTime ELSE now
    /\ now + took <= MaxClock
    /\ LET key  == <<strategy, timeframes[timeframe]>>
           send == /\ returned # NoSignal
                   /\ returned.signal_type # "NEUTRAL"
                   /\ _should_send_signal(last_signal_time, key, now)
       IN  IF send
           THEN /\ sent' = Append(sent, [kind |-> "signal", key |-> key,
                                         time |-> now, cycle |-> cycle])
                /\ now' = now + took
                /\ last_signal_time' = (key :> now') @@ last_signal_time
           ELSE UNCHANGED <<sent, now, last_signal_time>>
    /\ timeframe' = timeframe_after(timeframe, data_cache, cycle)
    /\ pc' = IF timeframe' = 0 THEN "cycle_end" ELSE "analyze_timeframe"
    /\ UNCHANGED <<engine, strategy, cycle, startup_delay, last_alert_time,
                   data_cache, attempts, outcome, fetched>>
    /\ UNCHANGED replay_vars

\* MultiStrategyBot._check_market_alerts on a frame for which detect_all
\* found an alert or none
CheckMarketAlerts(alerted, took) ==
    /\ engine = "MultiStrategyBot"
    /\ pc = "check_market_alerts"
    /\ now + took <= MaxClock
    /\ LET key   == <<"alert", timeframes[timeframe]>>
           fresh == ~ (/\ key \in DOMAIN last_alert_time
                       /\ now - last_alert_time[key] < alert_interval)
           alert == /\ timeframes[timeframe] \in {"15m", "1h"}
                    /\ alerted
                    /\ fresh
       IN  IF alert
           THEN /\ IF mail_held(startup_delay)
                   THEN UNCHANGED <<sent, now>>
                   ELSE /\ sent' = Append(sent,
                               [kind |-> "alert", key |-> key, time |-> now,
                                cycle |-> cycle])
                        /\ now' = now + took
                /\ last_alert_time' = (key :> now') @@ last_alert_time
           ELSE UNCHANGED <<sent, now, last_alert_time>>
    /\ pc' = "analyze_with_strategy"
    /\ strategy' = bot_strategies(engine)[1]
    /\ UNCHANGED <<engine, cycle, startup_delay, last_signal_time, timeframe,
                   data_cache, attempts, outcome, fetched>>
    /\ UNCHANGED <<signal, signal_timestamp>>
    /\ UNCHANGED replay_vars

\* MultiStrategyBot._analyze_with_strategy on the value analyze returned,
\* and the step of the loops over the strategies and the frames
AnalyzeWithStrategy(returned, took) ==
    /\ engine = "MultiStrategyBot"
    /\ pc = "analyze_with_strategy"
    /\ signal' = returned
    /\ signal_timestamp' = IF returned = NoSignal THEN NoTime ELSE now
    /\ now + took <= MaxClock
    /\ LET key  == <<strategy, timeframes[timeframe]>>
           pass == /\ returned # NoSignal
                   /\ returned.signal_type # "NEUTRAL"
                   /\ _should_send_signal(last_signal_time, key, now)
       IN  IF pass
           THEN /\ IF mail_held(startup_delay)
                   THEN UNCHANGED <<sent, now>>
                   ELSE /\ sent' = Append(sent,
                               [kind |-> "signal", key |-> key, time |-> now,
                                cycle |-> cycle])
                        /\ now' = now + took
                /\ last_signal_time' = (key :> now') @@ last_signal_time
           ELSE UNCHANGED <<sent, now, last_signal_time>>
    /\ LET all  == bot_strategies(engine)
           k    == CHOOSE j \in 1..Len(all) : all[j] = strategy
           next == timeframe_after(timeframe, data_cache, cycle)
       IN  IF k < Len(all)
           THEN /\ strategy' = all[k + 1]
                /\ UNCHANGED <<pc, timeframe>>
           ELSE /\ strategy' = all[1]
                /\ timeframe' = next
                /\ pc' = IF next = 0 THEN "cycle_end"
                         ELSE "check_market_alerts"
    /\ UNCHANGED <<engine, cycle, startup_delay, last_alert_time, data_cache,
                   attempts, outcome, fetched>>
    /\ UNCHANGED replay_vars

\* _analyze_cycle has returned: the first return clears the startup flag
CycleEnd ==
    /\ pc = "cycle_end"
    /\ pc' = "sleep"
    /\ startup_delay' = FALSE
    /\ timeframe' = 0
    /\ UNCHANGED <<engine, strategy, now, cycle, last_signal_time,
                   last_alert_time, sent, data_cache, attempts, outcome,
                   fetched>>
    /\ UNCHANGED <<signal, signal_timestamp>>
    /\ UNCHANGED replay_vars

NextLive ==
    \/ CycleStart
    \/ Sleep
    \/ \E ended \in {"ok", "timeout", "error"} : FetchAttempt(ended)
    \/ FetchReturn
    \/ \E returned \in live_signals, took \in 0..1 :
           AnalyzeTimeframe(returned, took)
    \/ \E alerted \in BOOLEAN, took \in 0..1 : CheckMarketAlerts(alerted, took)
    \/ \E returned \in live_signals, took \in 0..1 :
           AnalyzeWithStrategy(returned, took)
    \/ CycleEnd

SpecLive == InitLive /\ [][NextLive]_vars

----------------------------------------------------------------------------
(* Properties of the running bots and of the DataFetcher                   *)

\* analyze returned a signal the handlers act on
Detected(s) == s # NoSignal /\ s.signal_type # "NEUTRAL"

\* the throttle key of the handler that runs now
handler_key == <<strategy, timeframes[timeframe]>>

\* the step sends one signal e-mail for the key k
SendsFor(k) ==
    /\ Len(sent') = Len(sent) + 1
    /\ SubSeq(sent', 1, Len(sent)) = sent
    /\ sent'[Len(sent')].kind = "signal"
    /\ sent'[Len(sent')].key = k
    /\ sent'[Len(sent')].time = now

\* C37: in TradingBot the first signal detected for a timeframe is sent; a
\* signal is sent only when every earlier send for the same timeframe lies
\* strictly more than min_signal_interval minutes back; the throttle times
\* of the other timeframes stay as they are, and a handler that sends
\* nothing leaves every throttle time as it is.
TradingBotThrottle ==
    [][(engine = "TradingBot" /\ pc = "analyze_timeframe") =>
          /\ (/\ Detected(signal')
              /\ \A j \in DOMAIN sent : sent[j].key # handler_key)
                 => SendsFor(handler_key)
          /\ sent' # sent =>
                /\ SendsFor(handler_key)
                /\ Detected(signal')
                /\ \A j \in DOMAIN sent :
                       sent[j].key = handler_key
                           => now - sent[j].time > min_signal_interval
          /\ \A k \in DOMAIN last_signal_time :
                 k # handler_key => /\ k \in DOMAIN last_signal_time'
                                    /\ last_signal_time'[k] = last_signal_time[k]
          /\ sent' = sent => last_signal_time' = last_signal_time]_vars

\* TradingBot has sent twice for one timeframe and in between for the other,
\* and the signal it detected last, on the last timeframe, was held back
TradingBotThrottleWitness ==
    /\ engine = "TradingBot"
    /\ \E a, b, c \in DOMAIN sent :
           /\ a < c /\ c < b
           /\ sent[a].key = sent[b].key
           /\ sent[c].key # sent[a].key
           /\ sent[c].time - sent[a].time <= min_signal_interval
    /\ pc = "cycle_end"
    /\ "4h" \in DOMAIN data_cache
    /\ data_cache["4h"] = cycle
    /\ Detected(signal)
    /\ sent[Len(sent)].key[2] # "4h"

\* C38: MultiStrategyBot sends no signal and no alert e-mail in its first
\* cycle; a signal detected in that cycle that passes the throttle still
\* records last_signal_time for its strategy and timeframe; a signal e-mail
\* is sent only strictly more than min_signal_interval after the recorded
\* time of its pair; and from the second cycle on every detected signal
\* that passes the throttle is sent.
StartupDelayHoldsMail ==
    /\ [](engine = "MultiStrategyBot" =>
             /\ \A j \in DOMAIN sent : sent[j].cycle >= 2
             /\ startup_delay = (cycle = 0 \/ (cycle = 1 /\ pc # "sleep")))
    /\ [][(engine = "MultiStrategyBot" /\ pc = "analyze_with_strategy") =>
             LET passes ==
                     /\ Detected(signal')
                     /\ \/ handler_key \notin DOMAIN last_signal_time
                        \/ now - last_signal_time[handler_key]
                               > min_signal_interval
             IN  /\ (passes /\ cycle = 1) =>
                        /\ sent' = sent
                        /\ handler_key \in DOMAIN last_signal_time'
                        /\ last_signal_time'[handler_key] = now
                 /\ (passes /\ cycle >= 2) =>
                        /\ SendsFor(handler_key)
                        /\ last_signal_time'[handler_key] = now'
                 /\ sent' # sent => passes]_vars

\* in the second cycle MultiStrategyBot has sent a signal for one pair while
\* another pair, whose time was recorded in the first cycle, has sent none,
\* and it has sent an alert
StartupDelayHoldsMailWitness ==
    /\ engine = "MultiStrategyBot"
    /\ cycle = 2
    /\ \E j \in DOMAIN sent : sent[j].kind = "alert"
    /\ \E j \in DOMAIN sent :
           /\ sent[j].kind = "signal"
           /\ sent[j].key \in DOMAIN last_signal_time
    /\ \E k \in DOMAIN last_signal_time :
           /\ \A j \in DOMAIN sent : sent[j].key # k
           /\ now - last_signal_time[k] <= min_signal_interval
           /\ Detected(signal)
           /\ pc = "cycle_end"

\* C39: fetch_ticker and fetch_ohlcv make at most retry_count attempts; an
\* attempt is made only while no attempt has succeeded; the fetch returns
\* data exactly when its last attempt succeeded and the empty value exactly
\* after retry_count failed attempts; and data_cache changes only by a
\* successful attempt of fetch_ohlcv, for the timeframe being fetched.
FetchRetriesBounded ==
    /\ [](/\ attempts <= retry_count
          /\ fetched = "data" => outcome = "ok"
          /\ fetched = "empty" =>
                 /\ attempts = retry_count
                 /\ outcome \in {"timeout", "error"}
          /\ (fetched = "pending" /\ attempts > 0) =>
                 /\ attempts < retry_count
                 /\ outcome \in {"timeout", "error"})
    /\ [][/\ attempts' = attempts + 1 =>
                 /\ fetched = "pending"
                 /\ outcome # "ok"
          /\ data_cache' # data_cache =>
                 /\ pc = "fetch_ohlcv"
                 /\ attempts' = attempts + 1
                 /\ outcome' = "ok"
                 /\ fetched' = "data"
                 /\ \A tf \in DOMAIN data_cache :
                        tf # timeframes[timeframe]
                            => data_cache'[tf] = data_cache[tf]]_vars

\* a fetch of candles has fallen out of the retry loop, its last attempt
\* ended by an exception, and the cache still holds the candles of an
\* earlier cycle for that timeframe and those of this cycle for another
FetchRetriesBoundedWitness ==
    /\ pc = "fetch_ohlcv"
    /\ fetched = "empty"
    /\ attempts = retry_count
    /\ outcome = "error"
    /\ timeframes[timeframe] \in DOMAIN data_cache
    /\ data_cache[timeframes[timeframe]] < cycle
    /\ \E tf \in DOMAIN data_cache : data_cache[tf] = cycle

====
